---- MODULE Spec2Model ----
(***************************************************************************)
(* Model of the Recall portfolio rebalancing engine                        *)
(* (FIL-Builders/recall-examples, mastra/).                                *)
(*                                                                         *)
(* JavaScript numbers are modelled as exact rationals <<num, den>> in      *)
(* lowest terms with den > 0; IEEE rounding is not modelled.               *)
(***************************************************************************)
EXTENDS Integers, Sequences, FiniteSets, TLC

VARIABLES
  pc,                    \* position of executeRebalancingStep
  scenario,              \* index of the workflow input (balances, target, prices, chain)
  world,                 \* balances held by the Recall API account (external)
  forceRebalance,        \* config.forceRebalance
  needsRebalancing,      \* analysis.needsRebalancing handed to the step
  iterationsCompleted,   \* loop counter
  currentPortfolio,      \* balances fetched at the start of the iteration
  totalValueUSD,         \* iteration's total portfolio value
  maxDrift,              \* iteration's maximal drift
  prevMaxDrift,          \* maxDrift of the previous evaluation (history)
  plan,                  \* iterationRebalancingPlan
  queue,                 \* sub-trades of the iteration still to execute
  tokenToSell,           \* bootstrap: balance chosen for the sale
  requests,              \* history of calls to the trade executor tools
  fetches,               \* number of getPortfolio calls of the step (history)
  allRebalancingResults, \* results accumulated by the step
  totalVolumeUSD,        \* volume accumulated by the step
  exitReason,            \* how the loop was left
  finalAllocation,       \* allocation returned by the step
  faults,                \* external failures injected so far
  splitIn,               \* input of splitTradeIntoSubTrades (function check)
  splitOut,              \* its result
  rebalancingPlan,       \* analysis.rebalancingPlan of analyzeAllocationStep
  summary,               \* summary of generateReportStep
  consolidationPlan,     \* moves of chainAnalysis.consolidationPlan still to make
  subTradeIndex,         \* i of the sub-trade loop of the current move
  consolidationResults,  \* results accumulated by executeConsolidationStep
  updatedPortfolio,      \* portfolio handed to analyzeAllocationStep
  inputData,             \* fetchPricesStep: the percentages of the workflow input
  normalizedTargetAllocation, \* fetchPricesStep: config.targetAllocation
  priceFetch,            \* fetchPricesStep: calls of getPrice and its result
  skipConsolidation,     \* config.skipConsolidation
  consolidateToChain,    \* config.consolidateToChain (the user's, or auto-selected)
  enhancedPortfolio,     \* portfolio returned by analyzeChainDistributionStep
  runner                 \* runner.ts: runs in flight, pending timers, history

vars == <<pc, scenario, world, forceRebalance, needsRebalancing,
          iterationsCompleted, currentPortfolio, totalValueUSD, maxDrift,
          prevMaxDrift, plan, queue, tokenToSell, requests, fetches,
          allRebalancingResults, totalVolumeUSD, exitReason,
          finalAllocation, faults,
          splitIn, splitOut,
          rebalancingPlan, summary,
          consolidationPlan, subTradeIndex, consolidationResults,
          updatedPortfolio,
          inputData, normalizedTargetAllocation, priceFetch,
          skipConsolidation, consolidateToChain, enhancedPortfolio, runner>>

fetchVars == <<inputData, normalizedTargetAllocation, priceFetch>>
chainVars == <<skipConsolidation, consolidateToChain, enhancedPortfolio>>

----------------------------------------------------------------------------
(* Exact rational arithmetic                                               *)

Abs(x) == IF x < 0 THEN -x ELSE x

RECURSIVE GCD(_, _)
GCD(a, b) == IF b = 0 THEN a ELSE GCD(b, a % b)

Rat(n, d) ==
  LET g == GCD(Abs(n), Abs(d))
      s == IF d < 0 THEN -1 ELSE 1
  IN <<(s * n) \div g, (s * d) \div g>>

Zero == <<0, 1>>
One == <<1, 1>>
RInt(n) == <<n, 1>>
RAdd(a, b) == Rat(a[1] * b[2] + b[1] * a[2], a[2] * b[2])
RSub(a, b) == Rat(a[1] * b[2] - b[1] * a[2], a[2] * b[2])
RMul(a, b) == Rat(a[1] * b[1], a[2] * b[2])
RDiv(a, b) == Rat(a[1] * b[2], a[2] * b[1])
RDivInt(a, n) == Rat(a[1], a[2] * n)
\* a < b by integer parts and then by the reciprocals of the fractional parts:
\* the comparison of a[1] * b[2] with b[1] * a[2] without forming the products
RECURSIVE Below(_, _)
Below(a, b) ==
  IF a[1] \div a[2] # b[1] \div b[2] THEN a[1] \div a[2] < b[1] \div b[2]
  ELSE IF b[1] % b[2] = 0 THEN FALSE
  ELSE IF a[1] % a[2] = 0 THEN TRUE
  ELSE Below(<<b[2], b[1] % b[2]>>, <<a[2], a[1] % a[2]>>)

RLe(a, b) == ~Below(b, a)
RLt(a, b) == Below(a, b)
RAbs(a) == <<Abs(a[1]), a[2]>>
RMin(a, b) == IF RLt(b, a) THEN b ELSE a
RMax(a, b) == IF RLt(a, b) THEN b ELSE a
RCeil(a) == -((-a[1]) \div a[2])
RFloor(a) == a[1] \div a[2]
IMax(a, b) == IF a < b THEN b ELSE a

RECURSIVE RSum(_)
RSum(s) == IF s = <<>> THEN Zero ELSE RAdd(Head(s), RSum(Tail(s)))

----------------------------------------------------------------------------
(* Constants of the program                                                *)

DEFAULT_REBALANCE_THRESHOLD == <<1, 1000>>
DEFAULT_MIN_TRADE_VALUE_USD == <<1, 100>>
MAX_TRADE_SIZE_PERCENT_fifth == <<1, 5>>
MAX_TRADE_SIZE_PERCENT == <<1, 4>>
maxIterations == 10
convergenceThreshold == <<1, 200>>
maxTradesPerIteration == 3
NON_TARGET_PRIORITY == <<50, 1>>
STABLECOINS == {"USDC", "USDbC", "DAI", "USDT"}
STANDARD_TOKENS == {"USDC", "WETH", "USDT", "SOL"}

----------------------------------------------------------------------------
(* Trade splitter (utils.ts)                                               *)

SingleSubTrade(trade) ==
  [action |-> trade.action, symbol |-> trade.symbol,
   currentAmount |-> trade.currentAmount, targetAmount |-> trade.targetAmount,
   differenceAmount |-> trade.differenceAmount,
   differenceValueUSD |-> trade.differenceValueUSD,
   priority |-> trade.priority, preferredChain |-> trade.preferredChain,
   subTradeIndex |-> 1, totalSubTrades |-> 1]

numberOfSubTrades_floor(value, maxTradeValueUSD) ==
  IMax(1, RFloor(RDiv(value, maxTradeValueUSD)))

numberOfSubTrades(value, maxTradeValueUSD) ==
  IMax(1, RCeil(RDiv(value, maxTradeValueUSD)))

subTradeAmount_undivided(trade, n) == trade.differenceAmount

subTradeAmount(trade, n) == RDivInt(trade.differenceAmount, n)

subTradeValueUSD_undivided(trade, n) == trade.differenceValueUSD

subTradeValueUSD(trade, n) == RDivInt(trade.differenceValueUSD, n)

splitTradeIntoSubTrades(trade, totalPortfolioValueUSD, maxTradePercent) ==
  IF \/ RLe(totalPortfolioValueUSD, Zero)
     \/ RLe(maxTradePercent, Zero)
  THEN <<SingleSubTrade(trade)>>
  ELSE
    LET maxTradeValueUSD == RMul(totalPortfolioValueUSD, maxTradePercent) IN
    IF \/ RLe(maxTradeValueUSD, Zero)
       \/ RLe(trade.differenceValueUSD, Zero)
    THEN <<SingleSubTrade(trade)>>
    ELSE IF RLe(trade.differenceValueUSD, maxTradeValueUSD)
    THEN <<SingleSubTrade(trade)>>
    ELSE
      LET n == numberOfSubTrades(trade.differenceValueUSD, maxTradeValueUSD) IN
      [i \in 1..n |->
        [action |-> trade.action, symbol |-> trade.symbol,
         currentAmount |-> trade.currentAmount,
         targetAmount |-> trade.targetAmount,
         differenceAmount |-> subTradeAmount(trade, n),
         differenceValueUSD |-> subTradeValueUSD(trade, n),
         priority |-> trade.priority, preferredChain |-> trade.preferredChain,
         subTradeIndex |-> i, totalSubTrades |-> n]]

----------------------------------------------------------------------------
(* Token / chain registry (constants.ts, tools/recall-trading/utils.ts)    *)

SUPPORTED_CHAINS == {"eth", "polygon", "base", "arbitrum", "optimism", "svm"}

SPESIFIC_CHAIN_TOKENS ==
  [eth      |-> [eth |-> "0xc02a", usdc |-> "0xa0b8", usdt |-> "0xdac1"],
   polygon  |-> [eth |-> "0x7ceb", usdc |-> "0x2791", usdt |-> "0xc213"],
   base     |-> [eth |-> "0x4200", usdc |-> "0xd9aa", usdt |-> "0x50c5"],
   svm      |-> [sol |-> "So11", usdc |-> "EPjF", usdt |-> "Es9v"],
   arbitrum |-> [eth |-> "0x82af", usdc |-> "0xaf88", usdt |-> "0xfd08"],
   optimism |-> [eth |-> "0x4200", usdc |-> "0x7f5c", usdt |-> "0x94b0"]]

DEFAULT_CHAIN_FOR_SYMBOL ==
  [WETH |-> "eth", USDC |-> "eth", USDT |-> "eth", SOL |-> "svm"]

SYMBOL_VARIANTS ==
  [USDC |-> "USDC", USDbC |-> "USDC", WETH |-> "WETH", ETH |-> "WETH",
   USDT |-> "USDT", SOL |-> "SOL"]

NoChain == "none"

\* symbol.toLowerCase().replace("w", "")
TokenKey(symbol) ==
  CASE symbol = "WETH" -> "eth"
    [] symbol = "USDC" -> "usdc"
    [] symbol = "USDT" -> "usdt"
    [] symbol = "SOL" -> "sol"
    [] symbol = "USDbC" -> "usdbc"
    [] symbol = "DAI" -> "dai"
    [] OTHER -> "unknown"

ResolutionError == [ok |-> FALSE, address |-> "", specificChain |-> "", symbol |-> ""]

getTokenInfo(symbol, specificChain) ==
  IF symbol = "SOL"
  THEN [ok |-> TRUE, address |-> SPESIFIC_CHAIN_TOKENS["svm"]["sol"],
        specificChain |-> IF specificChain = NoChain THEN "svm" ELSE specificChain,
        symbol |-> "SOL"]
  ELSE
    LET defaultChain == IF symbol \in DOMAIN DEFAULT_CHAIN_FOR_SYMBOL
                        THEN DEFAULT_CHAIN_FOR_SYMBOL[symbol] ELSE "eth"
        targetChain == IF specificChain = NoChain THEN defaultChain ELSE specificChain
        tokenKey == TokenKey(symbol)
    IN IF targetChain \notin DOMAIN SPESIFIC_CHAIN_TOKENS THEN ResolutionError
       ELSE IF targetChain = "svm"
       THEN IF tokenKey \in {"usdc", "usdt"}
            THEN [ok |-> TRUE, address |-> SPESIFIC_CHAIN_TOKENS["svm"][tokenKey],
                  specificChain |-> targetChain, symbol |-> symbol]
            ELSE ResolutionError
       ELSE IF tokenKey \in {"eth", "usdc", "usdt"}
            THEN [ok |-> TRUE, address |-> SPESIFIC_CHAIN_TOKENS[targetChain][tokenKey],
                  specificChain |-> targetChain, symbol |-> symbol]
            ELSE ResolutionError

\* index of the first element of s satisfying Test, 0 if none
FirstIndex(s, Test(_)) ==
  IF \E i \in 1..Len(s) : Test(s[i])
  THEN CHOOSE i \in 1..Len(s) : Test(s[i]) /\ \A j \in 1..(i - 1) : ~Test(s[j])
  ELSE 0

VariantOf(symbol) ==
  IF symbol \in DOMAIN SYMBOL_VARIANTS THEN SYMBOL_VARIANTS[symbol] ELSE symbol

\* index in balances of the balance found for tokenInfo, 0 if none
findBalanceForToken(balances, tokenInfo) ==
  LET exact == FirstIndex(balances, LAMBDA b :
                 b.tokenAddress = tokenInfo.address
                 /\ b.specificChain = tokenInfo.specificChain)
  IN IF exact # 0 THEN exact
     ELSE FirstIndex(balances, LAMBDA b :
            VariantOf(b.symbol) = tokenInfo.symbol
            /\ b.specificChain = tokenInfo.specificChain)

----------------------------------------------------------------------------
(* Workflow inputs: the portfolios, targets and price snapshots explored   *)

Bal(symbol, chain, amount, address) ==
  [symbol |-> symbol, specificChain |-> chain, amount |-> amount,
   tokenAddress |-> address]

Tgt(symbol, percent) == [symbol |-> symbol, percent |-> percent]

UnitPrices == [USDC |-> One, WETH |-> One, USDT |-> One, SOL |-> One]

DEFAULT_TARGET_ALLOCATION ==
  <<Tgt("USDC", Zero), Tgt("WETH", Zero), Tgt("USDT", One), Tgt("SOL", Zero)>>

Scenarios == <<
  \* 1: default target, 1000 USDC on eth
  [balances |-> <<Bal("USDC", "eth", RInt(1000), "0xa0b8")>>,
   target |-> DEFAULT_TARGET_ALLOCATION, prices |-> UnitPrices,
   consolidateToChain |-> NoChain],
  \* 2: three targets, everything held in USDC
  [balances |-> <<Bal("USDC", "eth", RInt(100), "0xa0b8")>>,
   target |-> <<Tgt("WETH", <<2, 5>>), Tgt("USDT", <<3, 10>>), Tgt("SOL", <<3, 10>>)>>,
   prices |-> UnitPrices, consolidateToChain |-> NoChain],
  \* 3: USDC is a target and underweight, USDT is held but not a target
  [balances |-> <<Bal("USDC", "eth", RInt(40), "0xa0b8"),
                  Bal("WETH", "eth", RInt(25), "0xc02a"),
                  Bal("USDT", "eth", RInt(10), "0xdac1")>>,
   target |-> <<Tgt("USDC", <<1, 2>>), Tgt("WETH", <<1, 2>>)>>,
   prices |-> [USDC |-> One, WETH |-> RInt(2), USDT |-> One, SOL |-> One],
   consolidateToChain |-> NoChain],
  \* 4: USDC priced above 1 and overweight
  [balances |-> <<Bal("USDC", "eth", RInt(100), "0xa0b8")>>,
   target |-> <<Tgt("USDC", <<1, 5>>), Tgt("WETH", <<4, 5>>)>>,
   prices |-> [USDC |-> <<101, 100>>, WETH |-> One, USDT |-> One, SOL |-> One],
   consolidateToChain |-> NoChain],
  \* 5: only a buy is planned, no stablecoin held, SOL dust is not a target
  [balances |-> <<Bal("WETH", "eth", <<499, 125>>, "0xc02a"),
                  Bal("SOL", "svm", <<1, 125>>, "So11")>>,
   target |-> <<Tgt("WETH", <<399, 400>>), Tgt("USDT", <<1, 400>>)>>,
   prices |-> UnitPrices, consolidateToChain |-> NoChain],
  \* 6: only a buy is planned, the only non-target holding is unknown to the registry
  [balances |-> <<Bal("WETH", "eth", <<1, 2>>, "0xc02a"),
                  Bal("SOL", "svm", <<1, 2>>, "So11"),
                  Bal("XYZ", "eth", One, "0xeeee")>>,
   target |-> <<Tgt("WETH", <<247, 500>>), Tgt("SOL", <<247, 500>>),
                Tgt("USDT", <<3, 250>>)>>,
   prices |-> UnitPrices, consolidateToChain |-> NoChain],
  \* 7: already balanced
  [balances |-> <<Bal("USDC", "eth", RInt(50), "0xa0b8"),
                  Bal("USDT", "eth", RInt(50), "0xdac1")>>,
   target |-> <<Tgt("USDC", <<1, 2>>), Tgt("USDT", <<1, 2>>)>>,
   prices |-> UnitPrices, consolidateToChain |-> NoChain],
  \* 8: two chains, consolidation chain given, WETH overweight
  [balances |-> <<Bal("WETH", "eth", RInt(30), "0xc02a"),
                  Bal("WETH", "base", RInt(50), "0x4200"),
                  Bal("USDbC", "base", RInt(20), "0xd9aa")>>,
   target |-> <<Tgt("USDC", <<1, 2>>), Tgt("WETH", <<1, 2>>)>>,
   prices |-> UnitPrices, consolidateToChain |-> "base"],
  \* 9: portfolio worth less than the minimal trade value
  [balances |-> <<Bal("USDC", "eth", <<1, 200>>, "0xa0b8")>>,
   target |-> DEFAULT_TARGET_ALLOCATION, prices |-> UnitPrices,
   consolidateToChain |-> NoChain],
  \* 10: WETH has no price entry
  [balances |-> <<Bal("WETH", "eth", RInt(5), "0xc02a"),
                  Bal("USDT", "eth", RInt(60), "0xdac1"),
                  Bal("SOL", "svm", RInt(40), "So11")>>,
   target |-> <<Tgt("WETH", <<1, 2>>), Tgt("SOL", <<1, 2>>)>>,
   prices |-> [USDC |-> One, USDT |-> One, SOL |-> RInt(2)],
   consolidateToChain |-> NoChain],
  \* 11: the most urgent planned trade is a buy, two sells rank below it
  [balances |-> <<Bal("USDC", "eth", RInt(60), "0xa0b8"),
                  Bal("SOL", "svm", RInt(40), "So11")>>,
   target |-> <<Tgt("WETH", <<7, 10>>), Tgt("USDC", <<3, 10>>)>>,
   prices |-> UnitPrices, consolidateToChain |-> NoChain],
  \* 12: 1000 USDC on eth, the target names USDT only
  [balances |-> <<Bal("USDC", "eth", RInt(1000), "0xa0b8")>>,
   target |-> <<Tgt("USDT", One)>>, prices |-> UnitPrices,
   consolidateToChain |-> NoChain],
  \* 13: the drift equals the rebalance threshold
  [balances |-> <<Bal("USDC", "eth", RInt(501), "0xa0b8"),
                  Bal("USDT", "eth", RInt(499), "0xdac1")>>,
   target |-> <<Tgt("USDC", <<1, 2>>), Tgt("USDT", <<1, 2>>)>>,
   prices |-> UnitPrices, consolidateToChain |-> NoChain],
  \* 14: holdings without target weight spread over two chains
  [balances |-> <<Bal("USDT", "eth", RInt(30), "0xdac1"),
                  Bal("USDT", "base", RInt(20), "0x50c5"),
                  Bal("USDbC", "base", RInt(10), "0xd9aa"),
                  Bal("WETH", "eth", RInt(40), "0xc02a")>>,
   target |-> <<Tgt("WETH", One), Tgt("USDT", Zero)>>,
   prices |-> UnitPrices, consolidateToChain |-> NoChain],
  \* 15: three chains, consolidation to eth asked for
  [balances |-> <<Bal("WETH", "base", RInt(50), "0x4200"),
                  Bal("USDbC", "base", RInt(20), "0xd9aa"),
                  Bal("USDT", "polygon", RInt(10), "0xc213"),
                  Bal("USDC", "eth", RInt(20), "0xa0b8")>>,
   target |-> <<Tgt("USDC", <<1, 2>>), Tgt("WETH", <<1, 2>>)>>,
   prices |-> UnitPrices, consolidateToChain |-> "eth"],
  \* 16: everything on svm, svm is the consolidation chain, WETH is a target
  [balances |-> <<Bal("USDT", "svm", RInt(100), "Es9v")>>,
   target |-> <<Tgt("WETH", <<1, 2>>), Tgt("USDT", <<1, 2>>)>>,
   prices |-> UnitPrices, consolidateToChain |-> "svm"],
  \* 17: USDC is overweight and held on base under the address of native
  \* USDC, which is not the address the registry has for USDC on base
  [balances |-> <<Bal("USDC", "base", RInt(80), "0x8335"),
                  Bal("WETH", "eth", RInt(20), "0xc02a")>>,
   target |-> <<Tgt("USDC", <<1, 2>>), Tgt("WETH", <<1, 2>>)>>,
   prices |-> UnitPrices, consolidateToChain |-> NoChain]
>>

Input == Scenarios[scenario]
targetAllocation == Input.target

Price_orOne(symbol) ==
  IF symbol \in DOMAIN Input.prices THEN Input.prices[symbol] ELSE One

\* prices.prices[symbol] || 0
Price(symbol) ==
  IF symbol \in DOMAIN Input.prices THEN Input.prices[symbol] ELSE Zero

\* prices?.prices[symbol] || 1
PriceOr1(symbol) ==
  IF Price(symbol) = Zero THEN One ELSE Price(symbol)

\* targetAllocation[symbol] || 0
TargetPercent(symbol) ==
  LET i == FirstIndex(targetAllocation, LAMBDA t : t.symbol = symbol)
  IN IF i = 0 THEN Zero ELSE targetAllocation[i].percent

Normalized(symbol) == IF symbol = "USDbC" THEN "USDC" ELSE symbol

----------------------------------------------------------------------------
(* Allocation arithmetic of the loop (executeRebalancingStep)              *)

FlatMap(s, F(_)) ==
  LET f[i \in 0..Len(s)] == IF i = 0 THEN <<>> ELSE f[i - 1] \o F(s[i])
  IN f[Len(s)]

\* canonical symbols in order of first appearance (keys of symbolTotals)
HeldSymbols(balances) ==
  FlatMap([i \in 1..Len(balances) |-> i], LAMBDA i :
    IF \A j \in 1..(i - 1) :
         Normalized(balances[j].symbol) # Normalized(balances[i].symbol)
    THEN <<Normalized(balances[i].symbol)>> ELSE <<>>)

\* symbolTotals[symbol] || 0
SymbolTotal(balances, symbol) ==
  RSum(FlatMap(balances, LAMBDA b :
    IF Normalized(b.symbol) = symbol THEN <<b.amount>> ELSE <<>>))

TotalValueUSD(balances) ==
  RSum(FlatMap(HeldSymbols(balances), LAMBDA sym :
    <<RMul(SymbolTotal(balances, sym), Price(sym))>>))

currentAllocationPercent(balances, total, symbol) ==
  IF RLt(Zero, total)
  THEN RDiv(RMul(SymbolTotal(balances, symbol), Price(symbol)), total)
  ELSE Zero

allocationDrift(balances, total, t) ==
  RAbs(RSub(currentAllocationPercent(balances, total, t.symbol), t.percent))

MaxDriftOf(balances, total) ==
  LET f[i \in 0..Len(targetAllocation)] ==
        IF i = 0 THEN Zero
        ELSE RMax(f[i - 1], allocationDrift(balances, total, targetAllocation[i]))
  IN f[Len(targetAllocation)]

Converged_flipped(force, drift) ==
  ~force /\ RLe(convergenceThreshold, drift)

\* !config.forceRebalance && maxDrift <= REBALANCING_CONFIG.convergenceThreshold
Converged(force, drift) ==
  ~force /\ RLe(drift, convergenceThreshold)

preferredChainOf == IF consolidateToChain = NoChain THEN "eth" ELSE consolidateToChain

TargetPlanEntry(balances, total, t) ==
  LET currentAmount == SymbolTotal(balances, t.symbol)
      price == Price(t.symbol)
      targetValueUSD == RMul(total, t.percent)
      targetAmount == IF RLt(Zero, price) THEN RDiv(targetValueUSD, price) ELSE Zero
      differenceAmount == RSub(targetAmount, currentAmount)
      differenceValueUSD == RAbs(RMul(differenceAmount, price))
  IN IF RLe(DEFAULT_MIN_TRADE_VALUE_USD, differenceValueUSD)
     THEN <<[action |-> IF RLt(Zero, differenceAmount) THEN "buy" ELSE "sell",
             symbol |-> t.symbol, currentAmount |-> currentAmount,
             targetAmount |-> targetAmount,
             differenceAmount |-> RAbs(differenceAmount),
             differenceValueUSD |-> differenceValueUSD,
             priority |-> RMul(allocationDrift(balances, total, t), RInt(100)),
             preferredChain |-> preferredChainOf]>>
     ELSE <<>>

NonTargetPlanEntry_nonStable(balances, symbol) ==
  LET amount == SymbolTotal(balances, symbol)
      currentValueUSD == RMul(amount, Price(symbol))
  IN IF /\ TargetPercent(symbol) = Zero
        /\ RLe(DEFAULT_MIN_TRADE_VALUE_USD, currentValueUSD)
        /\ RLt(Zero, amount)
        /\ symbol \notin STABLECOINS
     THEN <<[action |-> "sell", symbol |-> symbol, currentAmount |-> amount,
             targetAmount |-> Zero, differenceAmount |-> amount,
             differenceValueUSD |-> currentValueUSD,
             priority |-> NON_TARGET_PRIORITY,
             preferredChain |-> preferredChainOf]>>
     ELSE <<>>

NonTargetPlanEntry(balances, symbol) ==
  LET amount == SymbolTotal(balances, symbol)
      currentValueUSD == RMul(amount, Price(symbol))
  IN IF /\ TargetPercent(symbol) = Zero
        /\ RLe(DEFAULT_MIN_TRADE_VALUE_USD, currentValueUSD)
        /\ RLt(Zero, amount)
     THEN <<[action |-> "sell", symbol |-> symbol, currentAmount |-> amount,
             targetAmount |-> Zero, differenceAmount |-> amount,
             differenceValueUSD |-> currentValueUSD,
             priority |-> NON_TARGET_PRIORITY,
             preferredChain |-> preferredChainOf]>>
     ELSE <<>>

iterationRebalancingPlan(balances, total) ==
  FlatMap(targetAllocation, LAMBDA t : TargetPlanEntry(balances, total, t))
  \o FlatMap(HeldSymbols(balances), LAMBDA sym : NonTargetPlanEntry(balances, sym))

\* Array.prototype.sort with a descending comparator on Key, stable
SortDescBy(s, Key(_)) ==
  LET Insert(sorted, x) ==
        LET k == Cardinality({i \in 1..Len(sorted) : RLe(Key(x), Key(sorted[i]))})
        IN SubSeq(sorted, 1, k) \o <<x>> \o SubSeq(sorted, k + 1, Len(sorted))
      f[i \in 0..Len(s)] == IF i = 0 THEN <<>> ELSE Insert(f[i - 1], s[i])
  IN f[Len(s)]

SortByPriority(s) == SortDescBy(s, LAMBDA x : x.priority)

\* CHAIN_PREFERENCES[symbol][0]
CHAIN_PREFERENCES ==
  [USDC |-> "eth", WETH |-> "eth", USDT |-> "eth", SOL |-> "svm"]

\* config.consolidateToChain || CHAIN_PREFERENCES[symbol][0]
analysisPreferredChain(symbol) ==
  IF consolidateToChain = NoChain THEN CHAIN_PREFERENCES[symbol] ELSE consolidateToChain

\* analyzeAllocationStep: plan entry of a target symbol
AnalysisTargetPlanEntry(balances, total, t) ==
  LET currentAmount == SymbolTotal(balances, t.symbol)
      price == Price(t.symbol)
      targetValueUSD == RMul(total, t.percent)
      targetAmount == IF RLt(Zero, price) THEN RDiv(targetValueUSD, price) ELSE Zero
      differenceAmount == RSub(targetAmount, currentAmount)
      differenceValueUSD == RAbs(RMul(differenceAmount, price))
  IN IF RLe(DEFAULT_MIN_TRADE_VALUE_USD, differenceValueUSD)
     THEN <<[action |-> IF RLt(Zero, differenceAmount) THEN "buy" ELSE "sell",
             symbol |-> t.symbol, currentAmount |-> currentAmount,
             targetAmount |-> targetAmount,
             differenceAmount |-> RAbs(differenceAmount),
             differenceValueUSD |-> differenceValueUSD,
             priority |-> RMul(allocationDrift(balances, total, t), RInt(100)),
             preferredChain |-> analysisPreferredChain(t.symbol)]>>
     ELSE <<>>

\* analyzeAllocationStep: sell entry of a held symbol with target weight 0
AnalysisNonTargetPlanEntry(balances, symbol) ==
  LET amount == SymbolTotal(balances, symbol)
      currentValueUSD == RMul(amount, Price(symbol))
  IN IF /\ TargetPercent(symbol) = Zero
        /\ RLe(DEFAULT_MIN_TRADE_VALUE_USD, currentValueUSD)
     THEN <<[action |-> "sell", symbol |-> symbol, currentAmount |-> amount,
             targetAmount |-> Zero, differenceAmount |-> amount,
             differenceValueUSD |-> currentValueUSD,
             priority |-> NON_TARGET_PRIORITY,
             preferredChain |-> preferredChainOf]>>
     ELSE <<>>

\* analysis.rebalancingPlan: built only when needsRebalancing, sorted by priority
analysisRebalancingPlan(balances, needed) ==
  IF needed
  THEN SortByPriority(
         FlatMap(targetAllocation, LAMBDA t :
           AnalysisTargetPlanEntry(balances, TotalValueUSD(balances), t))
         \o FlatMap(HeldSymbols(balances), LAMBDA sym :
              AnalysisNonTargetPlanEntry(balances, sym)))
  ELSE <<>>

tradesToExecute_unsorted(p) ==
  SubSeq(p, 1, IF Len(p) < maxTradesPerIteration THEN Len(p) ELSE maxTradesPerIteration)

\* sort by priority descending, then slice(0, maxTradesPerIteration)
tradesToExecute(p) ==
  SubSeq(SortByPriority(p), 1,
         IF Len(p) < maxTradesPerIteration THEN Len(p) ELSE maxTradesPerIteration)

IsSell(t) == t.action = "sell"
IsBuy(t) == t.action = "buy"

ExecutionOrder_priority(trades, total) ==
  FlatMap(trades, LAMBDA t : splitTradeIntoSubTrades(t, total, MAX_TRADE_SIZE_PERCENT))

\* splitSellTrades followed by splitBuyTrades
ExecutionOrder(trades, total) ==
  FlatMap(SelectSeq(trades, IsSell),
          LAMBDA t : splitTradeIntoSubTrades(t, total, MAX_TRADE_SIZE_PERCENT))
  \o FlatMap(SelectSeq(trades, IsBuy),
          LAMBDA t : splitTradeIntoSubTrades(t, total, MAX_TRADE_SIZE_PERCENT))

IsStablecoinBalance(b) == b.symbol \in STABLECOINS /\ RLt(Zero, b.amount)

IsNonTargetToken(b) ==
  /\ TargetPercent(Normalized(b.symbol)) = Zero
  /\ RLt(Zero, b.amount)
  /\ b.symbol \notin STABLECOINS

\* nonTargetTokens.reduce((max, current) => value(max) > value(current) ? max : current)
LargestNonTarget(tokens) ==
  LET Value(b) == RMul(b.amount, Price(Normalized(b.symbol)))
      f[i \in 1..Len(tokens)] ==
        IF i = 1 THEN tokens[1]
        ELSE IF RLt(Value(tokens[i]), Value(f[i - 1])) THEN f[i - 1] ELSE tokens[i]
  IN f[Len(tokens)]

NeedsBootstrap(balances, p) ==
  /\ SelectSeq(p, IsBuy) # <<>>
  /\ SelectSeq(p, IsSell) = <<>>
  /\ SelectSeq(balances, IsStablecoinBalance) = <<>>
  /\ SelectSeq(balances, IsNonTargetToken) # <<>>

----------------------------------------------------------------------------
(* executeSingleTrade (utils.ts): the request a sub-trade turns into       *)

NoRequest ==
  [tool |-> "none", kind |-> "none", iteration |-> 0, fromSymbol |-> "",
   toSymbol |-> "", fromAddress |-> "", toAddress |-> "", amount |-> Zero,
   fromSpecificChain |-> "", toSpecificChain |-> "", held |-> Zero]

TradeRequest(kind, iter, from, to, amount, fromChain, toChain, held) ==
  [tool |-> "executeTrade", kind |-> kind, iteration |-> iter,
   fromSymbol |-> from, toSymbol |-> to, fromAddress |-> "", toAddress |-> "",
   amount |-> amount, fromSpecificChain |-> fromChain,
   toSpecificChain |-> toChain, held |-> held]

AddressRequest(kind, iter, from, to, fromAddr, toAddr, amount, fromChain, toChain, held) ==
  [tool |-> "executeTradeByAddress", kind |-> kind, iteration |-> iter,
   fromSymbol |-> from, toSymbol |-> to, fromAddress |-> fromAddr,
   toAddress |-> toAddr, amount |-> amount, fromSpecificChain |-> fromChain,
   toSpecificChain |-> toChain, held |-> held]

\* tokenBalances.reduce((max, current) => current.amount > max.amount ? current : max)
LargestBalance(tokenBalances) ==
  LET f[i \in 1..Len(tokenBalances)] ==
        IF i = 1 THEN tokenBalances[1]
        ELSE IF RLt(f[i - 1].amount, tokenBalances[i].amount)
             THEN tokenBalances[i] ELSE f[i - 1]
  IN f[Len(tokenBalances)]

bestBalance_largest(tokenBalances) == LargestBalance(tokenBalances)

bestBalance(tokenBalances) ==
  LET onChain == FirstIndex(tokenBalances, LAMBDA b : b.specificChain = consolidateToChain)
  IN IF consolidateToChain # NoChain /\ onChain # 0
     THEN tokenBalances[onChain]
     ELSE LargestBalance(tokenBalances)

\* entries with percent > 0 sorted by percent descending, first one
primaryTargetToken ==
  SortDescBy(SelectSeq(targetAllocation, LAMBDA t : RLt(Zero, t.percent)),
             LAMBDA t : t.percent)

sellToSymbol_byWeight(symbol) ==
  IF TargetPercent(symbol) = Zero /\ primaryTargetToken # <<>>
  THEN primaryTargetToken[1].symbol
  ELSE "USDC"

\* destination symbol of a sell, "skip" when the trade is skipped
sellToSymbol(symbol) ==
  IF primaryTargetToken # <<>> /\ symbol = "USDC"
  THEN primaryTargetToken[1].symbol
  ELSE IF symbol # "USDC" THEN "USDC"
  ELSE "skip"

SellRequest(trade, portfolio, iter) ==
  LET tokenBalances == SelectSeq(portfolio, LAMBDA b :
        b.symbol = trade.symbol \/ (b.symbol = "USDbC" /\ trade.symbol = "USDC"))
  IN IF tokenBalances = <<>> THEN NoRequest
     ELSE LET best == bestBalance(tokenBalances)
              tradeAmount == RMin(trade.differenceAmount, best.amount)
              toSymbol == sellToSymbol(trade.symbol)
          IN IF toSymbol = "skip" THEN NoRequest
             ELSE TradeRequest("sell", iter, trade.symbol, toSymbol, tradeAmount,
                               best.specificChain, trade.preferredChain, best.amount)

StableValue(b) == RMul(b.amount, PriceOr1(Normalized(b.symbol)))

bestStablecoinBalance(stablecoinBalances, trade) ==
  LET sorted == SortDescBy(stablecoinBalances, StableValue)
      covering == FirstIndex(sorted, LAMBDA b : RLe(trade.differenceValueUSD, StableValue(b)))
  IN IF covering # 0 THEN sorted[covering] ELSE sorted[1]

\* Math.min(trade.differenceValueUSD, availableValueUSD)
actualTradeAmount(trade, best) ==
  RMin(trade.differenceValueUSD, StableValue(best))

BuyRequest(trade, portfolio, iter) ==
  LET stablecoinBalances == SelectSeq(portfolio, IsStablecoinBalance)
  IN IF stablecoinBalances = <<>> THEN NoRequest
     ELSE LET best == bestStablecoinBalance(stablecoinBalances, trade)
              amount == actualTradeAmount(trade, best)
              targetTokenInfo == getTokenInfo(trade.symbol, trade.preferredChain)
          IN IF ~targetTokenInfo.ok THEN NoRequest
             ELSE IF best.symbol \in STANDARD_TOKENS /\ best.symbol # "USDbC"
             THEN TradeRequest("buy", iter, best.symbol, trade.symbol, amount,
                               best.specificChain, trade.preferredChain, best.amount)
             ELSE AddressRequest("buy", iter, best.symbol, trade.symbol,
                                 best.tokenAddress, targetTokenInfo.address, amount,
                                 best.specificChain, trade.preferredChain, best.amount)

BootstrapRequest(token, iter) ==
  TradeRequest("bootstrap", iter, token.symbol, "USDC", token.amount,
               token.specificChain, token.specificChain, token.amount)

----------------------------------------------------------------------------
(* Trade executor tools (trading-tools.ts) and the exchange behind them    *)

SameToken(req) ==
  IF req.tool = "executeTrade"
  THEN req.fromSymbol = req.toSymbol /\ req.fromSpecificChain = req.toSpecificChain
  ELSE req.fromAddress = req.toAddress /\ req.fromSpecificChain = req.toSpecificChain

FromTokenInfo(req) ==
  IF req.tool = "executeTrade"
  THEN getTokenInfo(req.fromSymbol, req.fromSpecificChain)
  ELSE [ok |-> TRUE, address |-> req.fromAddress,
        specificChain |-> req.fromSpecificChain, symbol |-> req.fromSymbol]

ToTokenInfo(req) ==
  IF req.tool = "executeTrade"
  THEN getTokenInfo(req.toSymbol, req.toSpecificChain)
  ELSE [ok |-> TRUE, address |-> req.toAddress,
        specificChain |-> req.toSpecificChain, symbol |-> req.toSymbol]

\* index in the API balances of the balance the tool validates against
SelectedBalance(req, balances) ==
  IF req.tool = "executeTrade"
  THEN findBalanceForToken(balances, FromTokenInfo(req))
  ELSE FirstIndex(balances, LAMBDA b :
         b.tokenAddress = req.fromAddress /\ b.specificChain = req.fromSpecificChain)

\* outcome of the validations made before the trade is posted
ToolCheck(req, balances) ==
  IF SameToken(req) THEN "invalid_trade"
  ELSE IF ~FromTokenInfo(req).ok \/ ~ToTokenInfo(req).ok THEN "execution_error"
  ELSE LET i == SelectedBalance(req, balances)
           availableBalance == IF i = 0 THEN Zero ELSE balances[i].amount
       IN IF RLt(availableBalance, req.amount) THEN "insufficient_balance"
          ELSE "submit"

\* index in the account's balances of the token the posted trade names as
\* fromToken on fromSpecificChain, 0 if the account holds none
PostedBalance(req, balances) ==
  LET from == FromTokenInfo(req)
  IN FirstIndex(balances, LAMBDA b :
       b.tokenAddress = from.address /\ b.specificChain = from.specificChain)

\* the exchange can price both sides of the posted trade
ExchangePrices(req, balances) ==
  /\ Price(Normalized(req.fromSymbol)) # Zero
  /\ Price(Normalized(req.toSymbol)) # Zero

\* the account holds the amount of the token the posted trade sells
ExchangeFunds(req, balances) ==
  /\ PostedBalance(req, balances) # 0
  /\ RLe(req.amount, balances[PostedBalance(req, balances)].amount)

\* the exchange fills the posted trade exactly, at the snapshot prices
ExchangeFill(req, balances) ==
  LET i == PostedBalance(req, balances)
      to == ToTokenInfo(req)
      received == RDiv(RMul(req.amount, Price(Normalized(balances[i].symbol))),
                       Price(Normalized(req.toSymbol)))
      debited == [balances EXCEPT ![i].amount = RSub(@, req.amount)]
      j == FirstIndex(debited, LAMBDA b :
             b.tokenAddress = to.address /\ b.specificChain = to.specificChain)
  IN IF j # 0
     THEN [debited EXCEPT ![j].amount = RAdd(@, received)]
     ELSE Append(debited, Bal(req.toSymbol, to.specificChain, received, to.address))

\* GET /api/agent/balances filtered by includeZeroBalances = false
getPortfolio(balances) == SelectSeq(balances, LAMBDA b : RLt(Zero, b.amount))

----------------------------------------------------------------------------
(* Chain consolidation (analyzeChainDistributionStep,                      *)
(* executeConsolidationStep)                                               *)

\* chains of tokenDistribution[token], in order of first appearance
ChainsOf(balances, token) ==
  FlatMap([i \in 1..Len(balances) |-> i], LAMBDA i :
    IF /\ Normalized(balances[i].symbol) = token
       /\ \A j \in 1..(i - 1) :
            ~(/\ Normalized(balances[j].symbol) = token
              /\ balances[j].specificChain = balances[i].specificChain)
    THEN <<balances[i].specificChain>> ELSE <<>>)

\* tokenDistribution[token][chain]
tokenDistribution(balances, token, chain) ==
  RSum([i \in 1..Len(balances) |->
         IF Normalized(balances[i].symbol) = token /\ balances[i].specificChain = chain
         THEN balances[i].amount ELSE Zero])

\* sum of chainAnalysis.chainValues
chainValuesTotal(balances) ==
  RSum([i \in 1..Len(balances) |->
         RMul(balances[i].amount, Price(Normalized(balances[i].symbol)))])

MoveTo_anyChain(balances, token, chain, toChain) ==
  LET amount == tokenDistribution(balances, token, chain)
      valueUSD == RMul(amount, Price(token))
  IN IF RLt(Zero, amount) /\ RLe(DEFAULT_MIN_TRADE_VALUE_USD, valueUSD)
     THEN <<[fromChain |-> chain, toChain |-> toChain, token |-> token,
             amount |-> amount, valueUSD |-> valueUSD]>>
     ELSE <<>>

\* the move of a token off a chain, when it is worth consolidating
MoveTo(balances, token, chain, toChain) ==
  LET amount == tokenDistribution(balances, token, chain)
      valueUSD == RMul(amount, Price(token))
  IN IF /\ chain # toChain
        /\ RLt(Zero, amount)
        /\ RLe(DEFAULT_MIN_TRADE_VALUE_USD, valueUSD)
     THEN <<[fromChain |-> chain, toChain |-> toChain, token |-> token,
             amount |-> amount, valueUSD |-> valueUSD]>>
     ELSE <<>>

MoveOf(balances, token, chain) == MoveTo(balances, token, chain, consolidateToChain)

MovesOfTokenTo(balances, token, toChain) ==
  FlatMap(ChainsOf(balances, token), LAMBDA chain : MoveTo(balances, token, chain, toChain))

MovesOfToken(balances, token) == MovesOfTokenTo(balances, token, consolidateToChain)

\* if (!config.skipConsolidation && consolidateToChain): the moves, sorted
\* by value (largest first)
consolidationPlanTo(balances, toChain) ==
  IF toChain = NoChain THEN <<>>
  ELSE SortDescBy(FlatMap(HeldSymbols(balances),
                          LAMBDA token : MovesOfTokenTo(balances, token, toChain)),
                  LAMBDA move : move.valueUSD)

\* chainAnalysis.consolidationPlan for the chain of the config
consolidationPlanOf(balances) == consolidationPlanTo(balances, consolidateToChain)

\* the chains chainValues is initialised with, in insertion order
ChainOrder == <<"eth", "polygon", "base", "arbitrum", "optimism", "svm">>

\* chainValues[chain]
chainValues(balances, chain) ==
  RSum([i \in 1..Len(balances) |->
         IF balances[i].specificChain = chain
         THEN RMul(balances[i].amount, Price(Normalized(balances[i].symbol)))
         ELSE Zero])

\* CHAIN_PREFERENCES[token], the whole list
ChainPreferenceList ==
  [USDC |-> <<"eth", "arbitrum", "polygon", "base", "optimism", "svm">>,
   WETH |-> <<"eth", "arbitrum", "optimism", "polygon", "base">>,
   USDT |-> <<"eth", "arbitrum", "polygon", "optimism", "base", "svm">>,
   SOL |-> <<"svm">>]

chainScore_valueOnly(balances, chain) == chainValues(balances, chain)

\* value on the chain plus 1000 / (chainIndex + 1) for every target token
\* with a positive weight that prefers the chain
chainScore(balances, chain) ==
  RAdd(chainValues(balances, chain),
       RSum([i \in 1..Len(targetAllocation) |->
              LET t == targetAllocation[i]
                  chainIndex ==
                    IF t.symbol \in DOMAIN ChainPreferenceList
                    THEN FirstIndex(ChainPreferenceList[t.symbol], LAMBDA c : c = chain)
                    ELSE 0
              IN IF RLt(Zero, t.percent) /\ chainIndex # 0
                 THEN <<1000, chainIndex>> ELSE Zero]))

\* determineOptimalConsolidationChain: NoChain when at most one chain holds
\* value, else of the chains by value (descending) the first one with the
\* highest score (score > bestScore replaces the chain chosen so far)
determineOptimalConsolidationChain(balances) ==
  LET chainsByValue ==
        SortDescBy(SelectSeq(ChainOrder, LAMBDA c : RLt(Zero, chainValues(balances, c))),
                   LAMBDA c : chainValues(balances, c))
      n == Len(chainsByValue)
      score(i) == chainScore(balances, chainsByValue[i])
  IN IF n <= 1 THEN NoChain
     ELSE chainsByValue[CHOOSE i \in 1..n :
                          /\ \A j \in 1..(i - 1) : RLt(score(j), score(i))
                          /\ \A j \in (i + 1)..n : RLe(score(j), score(i))]

\* Math.ceil(move.valueUSD / Math.min(maxTradeValue, portfolioLimit, move.valueUSD))
consolidationTradesToExecute(move, totalValue) ==
  LET maxTradeValue == RMul(move.valueUSD, <<1, 5>>)
      portfolioLimit == RMul(totalValue, <<1, 4>>)
      effectiveMaxTrade == RMin(RMin(maxTradeValue, portfolioLimit), move.valueUSD)
  IN RCeil(RDiv(move.valueUSD, effectiveMaxTrade))

\* the last sub-trade takes what the equal shares left
tradeAmount(move, i, n) ==
  IF i = n - 1
  THEN RSub(move.amount, RDivInt(RMul(RInt(i), move.amount), n))
  ELSE RDivInt(move.amount, n)

ConsolidationRequest_crossChain(move, i, n) ==
  TradeRequest("consolidation", 0, move.token, "USDC", tradeAmount(move, i, n),
               move.fromChain, move.toChain, move.amount)

\* executeTrade({fromSymbol: move.token, toSymbol: "USDC", amount: tradeAmount,
\* fromSpecificChain: move.fromChain, toSpecificChain: move.fromChain})
ConsolidationRequest(move, i, n) ==
  TradeRequest("consolidation", 0, move.token, "USDC", tradeAmount(move, i, n),
               move.fromChain, move.fromChain, move.amount)

nextSubTrade_breakOnFailure(i, n, success) ==
  IF success /\ i + 1 < n THEN i + 1 ELSE 0

\* for (let i = 0; i < tradesToExecute; i++): a failed sub-trade is only logged
nextSubTrade(i, n, success) ==
  IF i + 1 < n THEN i + 1 ELSE 0


----------------------------------------------------------------------------
(* IEEE 754 double arithmetic of the target normalization                  *)

\* A Number (IEEE 754 binary64) is kept exactly as six limbs of LimbBits
\* bits, most significant first: limb 1 is the integer part, limbs 2..6 are
\* the 75 bits after the binary point.  This is exact for the doubles the
\* normalization meets: values below 2^10 that are 0 or at least 2^-21.
MantissaBits == 53
LimbBits == 15
Limbs == 6
Limb == 2^LimbBits

ZeroNum == <<0, 0, 0, 0, 0, 0>>
NumOfInt(n) == <<n, 0, 0, 0, 0, 0>>
OneNum == NumOfInt(1)

NumLt(a, b) ==
  \E k \in 1..Limbs : a[k] < b[k] /\ \A j \in 1..(k - 1) : a[j] = b[j]

RECURSIVE AddFrom(_, _, _)
\* <<limbs i..Limbs of a + b, carry into limb i - 1>>
AddFrom(a, b, i) ==
  IF i > Limbs THEN <<<<>>, 0>>
  ELSE LET r == AddFrom(a, b, i + 1)
           s == a[i] + b[i] + r[2]
       IN <<<<s % Limb>> \o r[1], s \div Limb>>
NumAdd(a, b) == AddFrom(a, b, 1)[1]

RECURSIVE SubFrom(_, _, _)
\* <<limbs i..Limbs of a - b, borrow from limb i - 1>>, a >= b
SubFrom(a, b, i) ==
  IF i > Limbs THEN <<<<>>, 0>>
  ELSE LET r == SubFrom(a, b, i + 1)
           d == a[i] - b[i] - r[2]
       IN <<<<IF d < 0 THEN d + Limb ELSE d>> \o r[1], IF d < 0 THEN 1 ELSE 0>>
NumSub(a, b) == SubFrom(a, b, 1)[1]
NumAbsDiff(a, b) == IF NumLt(a, b) THEN NumSub(b, a) ELSE NumSub(a, b)

RECURSIVE TimesFrom(_, _, _)
\* <<limbs i..Limbs of a * n, carry into limb i - 1>>, n small
TimesFrom(a, n, i) ==
  IF i > Limbs THEN <<<<>>, 0>>
  ELSE LET r == TimesFrom(a, n, i + 1)
           p == a[i] * n + r[2]
       IN <<<<p % Limb>> \o r[1], p \div Limb>>
NumTimes(a, n) == TimesFrom(a, n, 1)[1]

\* bit p of a, bit 0 being the least significant bit of the last limb
BitAt(a, p) == (a[Limbs - (p \div LimbBits)] \div 2^(p % LimbBits)) % 2
\* a with the bits below bit p cleared
ClearBelow(a, p) ==
  LET Cleared(i) ==
        LET low == LimbBits * (Limbs - i)
        IN IF low >= p THEN a[i]
           ELSE IF low + LimbBits <= p THEN 0
           ELSE a[i] - (a[i] % 2^(p - low))
  IN <<Cleared(1), Cleared(2), Cleared(3), Cleared(4), Cleared(5), Cleared(6)>>
\* 2^p in the unit of bit 0
PowerAt(p) ==
  LET At(i) == IF i = Limbs - (p \div LimbBits) THEN 2^(p % LimbBits) ELSE 0
  IN <<At(1), At(2), At(3), At(4), At(5), At(6)>>
\* position of the leading 1 bit of a # 0
TopBit(a) ==
  LET i == CHOOSE k \in 1..Limbs : a[k] # 0 /\ \A j \in 1..(k - 1) : a[j] = 0
  IN LimbBits * (Limbs - i) + Cardinality({j \in 1..LimbBits : 2^j <= a[i]})

\* round to nearest, ties to even, keeping MantissaBits significant bits;
\* sticky says that the exact value lies above the expansion a
RoundToDouble(a, sticky) ==
  IF a = ZeroNum THEN a
  ELSE LET last == TopBit(a) - (MantissaBits - 1)
       IN IF last <= 0 THEN a
          ELSE LET kept == ClearBelow(a, last)
                   rest == sticky \/ ClearBelow(a, last - 1) # a
                   up == BitAt(a, last - 1) = 1 /\ (rest \/ BitAt(a, last) = 1)
               IN IF up THEN NumAdd(kept, PowerAt(last)) ELSE kept

\* a + b of two doubles
DoubleAdd(a, b) == RoundToDouble(NumAdd(a, b), FALSE)

\* one binary step of the long division: <<quotient so far, remainder>>
DivStep(qr, d, n) ==
  LET m == NumTimes(d, n)
  IN IF NumLt(qr[2], m) THEN qr ELSE <<qr[1] + n, NumSub(qr[2], m)>>
\* <<floor(r / d), r - floor(r / d) * d>> for r < 32 d
Digit(r, d) ==
  DivStep(DivStep(DivStep(DivStep(DivStep(<<0, r>>, d, 16), d, 8), d, 4), d, 2), d, 1)

RECURSIVE DivFrom(_, _, _)
\* long division in base 32: <<digits k..15 of r / d, remainder is not zero>>
DivFrom(r, d, k) ==
  LET qr == Digit(r, d)
  IN IF k = 15 THEN <<<<qr[1]>>, qr[2] # ZeroNum>>
     ELSE LET next == DivFrom(NumTimes(qr[2], 32), d, k + 1)
          IN <<<<qr[1]>> \o next[1], next[2]>>

\* a / b of two doubles, 0 <= a < 32 b, b < 2^9
DoubleDiv(a, b) ==
  LET q == DivFrom(a, b, 0)
      g == q[1]
      Pack(i) == g[i] * 1024 + g[i + 1] * 32 + g[i + 2]
  IN RoundToDouble(<<g[1], Pack(2), Pack(5), Pack(8), Pack(11), Pack(14)>>, q[2])

RECURSIVE DoubleSum(_)
\* values.reduce((sum, value) => sum + value, 0)
DoubleSum(values) ==
  IF values = <<>> THEN ZeroNum
  ELSE DoubleAdd(DoubleSum(SubSeq(values, 1, Len(values) - 1)), values[Len(values)])

----------------------------------------------------------------------------
(* fetchPricesStep: target allocation from the percentage inputs           *)

\* a percentage input is optional: <<>> is undefined, <<p>> is the number p
NoInput == [usdcPercent |-> <<>>, wethPercent |-> <<>>, usdtPercent |-> <<>>,
            solPercent |-> <<>>]
NoPriceFetch == [calls |-> 0, success |-> FALSE]

\* runner.ts before its first call: no run in flight, no timer set
NoRunner == [inFlight |-> 0, timers |-> <<>>, runs |-> 0, settled |-> 0,
             lastOutcome |-> "none"]

\* the double of a decimal literal
DoubleOf(r) == DoubleDiv(NumOfInt(r[1]), NumOfInt(r[2]))

\* inputData.usdcPercent && inputData.usdcPercent > 0
Provided(p) == p # <<>> /\ p[1] > 0

\* the entries of rawAllocation in insertion order
rawAllocation(input) ==
  LET Entry(symbol, p) ==
        IF Provided(p) THEN <<Tgt(symbol, NumOfInt(p[1]))>> ELSE <<>>
  IN Entry("USDC", input.usdcPercent) \o Entry("WETH", input.wethPercent)
       \o Entry("USDT", input.usdtPercent) \o Entry("SOL", input.solPercent)

RECURSIVE Percents(_)
\* Object.values(allocation)
Percents(allocation) ==
  IF allocation = <<>> THEN <<>>
  ELSE <<Head(allocation).percent>> \o Percents(Tail(allocation))

\* Object.values(rawAllocation).reduce((sum, value) => sum + value, 0)
totalPercent(raw) == DoubleSum(Percents(raw))

normalizedPercent_ofHundred(percent, total) == DoubleDiv(percent, NumOfInt(100))
\* normalizedTargetAllocation[token] = percent / totalPercent
normalizedPercent(percent, total) == DoubleDiv(percent, total)

RECURSIVE normalize(_, _)
\* for (const [token, percent] of Object.entries(rawAllocation))
normalize(raw, total) ==
  IF raw = <<>> THEN <<>>
  ELSE <<Tgt(Head(raw).symbol, normalizedPercent(Head(raw).percent, total))>>
         \o normalize(Tail(raw), total)

\* DEFAULT_TARGET_ALLOCATION as the doubles of its literals
DefaultTargetAllocation ==
  <<Tgt("USDC", ZeroNum), Tgt("WETH", ZeroNum),
    Tgt("USDT", OneNum), Tgt("SOL", ZeroNum)>>

----------------------------------------------------------------------------
(* Bounds of the exploration                                               *)

MaxFaults == 2
MaxSplitUnits == 10
MaxPercent == 2
MaxRuns == 3

----------------------------------------------------------------------------
(* executeRebalancingStep as a state machine                               *)

NoBalance == Bal("", "", Zero, "")
NoSplit == [trade |-> SingleSubTrade([action |-> "sell", symbol |-> "", currentAmount |-> Zero,
                        targetAmount |-> Zero, differenceAmount |-> Zero,
                        differenceValueUSD |-> Zero, priority |-> Zero,
                        preferredChain |-> ""]),
            total |-> Zero, percent |-> Zero]

\* analysis.currentAllocation of analyzeAllocationStep
AnalysisAllocation(balances) ==
  [i \in 1..Len(targetAllocation) |->
    [symbol |-> targetAllocation[i].symbol,
     percent |-> currentAllocationPercent(balances, TotalValueUSD(balances),
                                          targetAllocation[i].symbol)]]

analysisNeedsRebalancing_inclusive(force, drift) ==
  force \/ RLe(DEFAULT_REBALANCE_THRESHOLD, drift)

\* config.forceRebalance || maxDrift > config.rebalanceThreshold
analysisNeedsRebalancing(force, drift) ==
  force \/ RLt(DEFAULT_REBALANCE_THRESHOLD, drift)

NoSummary ==
  [rebalancingRequired |-> FALSE, rebalancingTrades |-> 0, iterationsCompleted |-> 0,
   totalVolumeUSD |-> Zero, allocationFinal |-> <<>>, maxDriftAfter |-> Zero]

LoopInit ==
  /\ scenario \in 1..Len(Scenarios)
  /\ consolidateToChain = Input.consolidateToChain
  /\ forceRebalance \in BOOLEAN
  /\ world = Input.balances
  /\ maxDrift = MaxDriftOf(getPortfolio(world), TotalValueUSD(getPortfolio(world)))
  /\ prevMaxDrift = maxDrift
  /\ needsRebalancing = analysisNeedsRebalancing(forceRebalance, maxDrift)
  /\ pc = "start"
  /\ iterationsCompleted = 0
  /\ currentPortfolio = <<>>
  /\ totalValueUSD = TotalValueUSD(getPortfolio(world))
  /\ plan = <<>>
  /\ queue = <<>>
  /\ tokenToSell = NoBalance
  /\ requests = <<>>
  /\ fetches = 0
  /\ allRebalancingResults = <<>>
  /\ totalVolumeUSD = Zero
  /\ exitReason = "none"
  /\ finalAllocation = <<>>
  /\ faults = 0
  /\ splitIn = NoSplit
  /\ splitOut = <<>>
  /\ rebalancingPlan = analysisRebalancingPlan(getPortfolio(world), needsRebalancing)
  /\ summary = NoSummary
  /\ consolidationPlan = <<>>
  /\ subTradeIndex = 0
  /\ consolidationResults = <<>>
  /\ updatedPortfolio = getPortfolio(world)
  /\ inputData = NoInput
  /\ normalizedTargetAllocation = <<>>
  /\ priceFetch = NoPriceFetch
  /\ skipConsolidation = TRUE
  /\ enhancedPortfolio = getPortfolio(Input.balances)
  /\ runner = NoRunner

\* a run whose input asks for consolidation and whose plan has a move:
\* the state after analyzeChainDistributionStep
ConsolidationInit ==
  /\ scenario \in 1..Len(Scenarios)
  /\ consolidateToChain = Input.consolidateToChain
  /\ consolidationPlan = consolidationPlanOf(getPortfolio(Input.balances))
  /\ consolidationPlan # <<>>
  /\ forceRebalance \in BOOLEAN
  /\ world = Input.balances
  /\ pc = "consolidate"
  /\ subTradeIndex = 0
  /\ consolidationResults = <<>>
  /\ updatedPortfolio = <<>>
  /\ maxDrift = Zero
  /\ prevMaxDrift = Zero
  /\ needsRebalancing = FALSE
  /\ iterationsCompleted = 0
  /\ currentPortfolio = <<>>
  /\ totalValueUSD = Zero
  /\ plan = <<>>
  /\ queue = <<>>
  /\ tokenToSell = NoBalance
  /\ requests = <<>>
  /\ fetches = 0
  /\ allRebalancingResults = <<>>
  /\ totalVolumeUSD = Zero
  /\ exitReason = "none"
  /\ finalAllocation = <<>>
  /\ faults = 0
  /\ splitIn = NoSplit
  /\ splitOut = <<>>
  /\ rebalancingPlan = <<>>
  /\ summary = NoSummary
  /\ inputData = NoInput
  /\ normalizedTargetAllocation = <<>>
  /\ priceFetch = NoPriceFetch
  /\ skipConsolidation = FALSE
  /\ enhancedPortfolio = getPortfolio(Input.balances)
  /\ runner = NoRunner

\* if (!analysis.needsRebalancing) return ...
StartStep ==
  /\ pc = "start"
  /\ IF ~needsRebalancing
     THEN /\ pc' = "done"
          /\ exitReason' = "not_needed"
          /\ finalAllocation' = AnalysisAllocation(getPortfolio(world))
     ELSE /\ pc' = "loop"
          /\ UNCHANGED <<exitReason, finalAllocation>>
  /\ UNCHANGED <<fetchVars, chainVars, scenario, consolidationPlan, subTradeIndex, consolidationResults,
                 updatedPortfolio, rebalancingPlan, summary, world, forceRebalance, needsRebalancing,
                 iterationsCompleted, currentPortfolio, totalValueUSD, maxDrift,
                 prevMaxDrift, plan, queue, tokenToSell, requests, fetches,
                 allRebalancingResults, totalVolumeUSD, faults, splitIn, splitOut>>
  /\ UNCHANGED runner

countIteration_notCounted(n) == n

\* iterationsCompleted++ at the top of the loop body
countIteration(n) == n + 1

LoopCondition_inclusive == iterationsCompleted <= maxIterations

\* while (iterationsCompleted < maxIterations)
LoopCondition == iterationsCompleted < maxIterations

\* the while condition is false: the loop is left at the iteration cap
IterationCapReached ==
  /\ pc = "loop"
  /\ ~LoopCondition
  /\ pc' = "final"
  /\ exitReason' = "cap"
  /\ UNCHANGED <<fetchVars, chainVars, scenario, consolidationPlan, subTradeIndex, consolidationResults,
                 updatedPortfolio, rebalancingPlan, summary, world, forceRebalance, needsRebalancing,
                 iterationsCompleted, currentPortfolio, totalValueUSD, maxDrift,
                 prevMaxDrift, plan, queue, tokenToSell, requests, fetches,
                 allRebalancingResults, totalVolumeUSD, finalAllocation, faults,
                 splitIn, splitOut>>
  /\ UNCHANGED runner

FetchOutcomes == {FALSE} \cup (IF faults < MaxFaults THEN {TRUE} ELSE {})

\* loop body up to the first trade: refresh, drift, convergence check, plan
EvaluateIteration ==
  /\ pc = "loop"
  /\ LoopCondition
  /\ \E failed \in FetchOutcomes :
       LET fetched == IF failed THEN <<>> ELSE getPortfolio(world)
           total == TotalValueUSD(fetched)
           drift == MaxDriftOf(fetched, total)
           p == iterationRebalancingPlan(fetched, total)
       IN /\ iterationsCompleted' = countIteration(iterationsCompleted)
          /\ currentPortfolio' = fetched
          /\ totalValueUSD' = total
          /\ maxDrift' = drift
          /\ prevMaxDrift' = maxDrift
          /\ fetches' = fetches + 1
          /\ faults' = IF failed THEN faults + 1 ELSE faults
          /\ IF Converged(forceRebalance, drift)
             THEN /\ pc' = "final"
                  /\ exitReason' = "converged"
                  /\ plan' = <<>>
                  /\ queue' = <<>>
                  /\ tokenToSell' = NoBalance
             ELSE IF p = <<>>
             THEN /\ pc' = "final"
                  /\ exitReason' = "exhausted"
                  /\ plan' = <<>>
                  /\ queue' = <<>>
                  /\ tokenToSell' = NoBalance
             ELSE IF NeedsBootstrap(fetched, p)
             THEN /\ pc' = "bootstrap"
                  /\ plan' = p
                  /\ queue' = <<>>
                  /\ tokenToSell' = LargestNonTarget(SelectSeq(fetched, IsNonTargetToken))
                  /\ UNCHANGED exitReason
             ELSE /\ pc' = "exec"
                  /\ plan' = p
                  /\ queue' = ExecutionOrder(tradesToExecute(p), total)
                  /\ tokenToSell' = NoBalance
                  /\ UNCHANGED exitReason
  /\ UNCHANGED <<fetchVars, chainVars, scenario, consolidationPlan, subTradeIndex, consolidationResults,
                 updatedPortfolio, rebalancingPlan, summary, world, forceRebalance, needsRebalancing, requests,
                 allRebalancingResults, totalVolumeUSD, finalAllocation,
                 splitIn, splitOut>>
  /\ UNCHANGED runner

\* results of one call of a trade executor tool: status, success, balances after
ToolOutcomes(req) ==
  LET st == ToolCheck(req, world) IN
  IF st # "submit"
  THEN {[status |-> st, success |-> FALSE, world |-> world, fault |-> 0]}
  ELSE IF ~ExchangePrices(req, world) \/ ~ExchangeFunds(req, world)
  THEN {[status |-> "bad_request", success |-> FALSE, world |-> world, fault |-> 0]}
  ELSE {[status |-> "executed", success |-> TRUE,
         world |-> ExchangeFill(req, world), fault |-> 0]}
       \cup (IF faults < MaxFaults
             THEN {[status |-> "execution_error", success |-> FALSE,
                    world |-> world, fault |-> 1]}
             ELSE {})

Logged(req, out) == [req |-> req, status |-> out.status, success |-> out.success]

Result(req, out) ==
  [success |-> out.success, status |-> out.status, kind |-> req.kind,
   iteration |-> req.iteration]

\* record pushed to consolidationResults; move and index say which attempt
\* it is, call is the executeTrade call that returned it (NoRequest if none)
ConsolidationResult(move, i, call, status, success) ==
  [success |-> success, status |-> status, token |-> move.token,
   fromChain |-> move.fromChain, index |-> i, call |-> call]

\* if (move.token === "USDC"): the move is recorded as a simulated bridge transfer
ConsolidationBridge ==
  /\ pc = "consolidate"
  /\ consolidationPlan # <<>>
  /\ Head(consolidationPlan).token = "USDC"
  /\ consolidationResults' =
       Append(consolidationResults,
              ConsolidationResult(Head(consolidationPlan), 0, NoRequest,
                                  "simulated_bridge_transfer", TRUE))
  /\ consolidationPlan' = Tail(consolidationPlan)
  /\ subTradeIndex' = 0
  /\ UNCHANGED <<fetchVars, chainVars, pc, scenario, updatedPortfolio, rebalancingPlan, summary, world,
                 forceRebalance, needsRebalancing, iterationsCompleted,
                 currentPortfolio, totalValueUSD, maxDrift, prevMaxDrift, plan,
                 queue, tokenToSell, requests, fetches, allRebalancingResults,
                 totalVolumeUSD, exitReason, finalAllocation, faults, splitIn,
                 splitOut>>
  /\ UNCHANGED runner

\* one sub-trade of a move: sell the share of the token to USDC on the source chain
ConsolidationSubTrade ==
  /\ pc = "consolidate"
  /\ consolidationPlan # <<>>
  /\ Head(consolidationPlan).token # "USDC"
  /\ LET move == Head(consolidationPlan)
         n == consolidationTradesToExecute(
                move, chainValuesTotal(getPortfolio(Input.balances)))
         req == ConsolidationRequest(move, subTradeIndex, n)
     IN \E out \in ToolOutcomes(req) :
          /\ world' = out.world
          /\ faults' = faults + out.fault
          /\ consolidationResults' =
               Append(consolidationResults,
                      ConsolidationResult(move, subTradeIndex, req, out.status, out.success))
          /\ subTradeIndex' = nextSubTrade(subTradeIndex, n, out.success)
          /\ consolidationPlan' = IF subTradeIndex' = 0 THEN Tail(consolidationPlan)
                                  ELSE consolidationPlan
  /\ UNCHANGED <<fetchVars, chainVars, pc, scenario, updatedPortfolio, rebalancingPlan, summary,
                 forceRebalance, needsRebalancing, iterationsCompleted,
                 currentPortfolio, totalValueUSD, maxDrift, prevMaxDrift, plan,
                 queue, tokenToSell, requests, fetches, allRebalancingResults,
                 totalVolumeUSD, exitReason, finalAllocation, splitIn, splitOut>>
  /\ UNCHANGED runner

\* end of executeConsolidationStep, then analyzeAllocationStep on its portfolio
FinishConsolidation ==
  /\ pc = "consolidate"
  /\ consolidationPlan = <<>>
  /\ LET fetched == getPortfolio(world)
         drift == MaxDriftOf(fetched, TotalValueUSD(fetched))
         needed == analysisNeedsRebalancing(forceRebalance, drift)
     IN /\ updatedPortfolio' = fetched
        /\ totalValueUSD' = TotalValueUSD(fetched)
        /\ maxDrift' = drift
        /\ prevMaxDrift' = drift
        /\ needsRebalancing' = needed
        /\ rebalancingPlan' = analysisRebalancingPlan(fetched, needed)
  /\ pc' = "start"
  /\ UNCHANGED <<fetchVars, chainVars, scenario, consolidationPlan, subTradeIndex, consolidationResults,
                 summary, world, forceRebalance, iterationsCompleted,
                 currentPortfolio, plan, queue, tokenToSell, requests, fetches,
                 allRebalancingResults, totalVolumeUSD, exitReason,
                 finalAllocation, faults, splitIn, splitOut>>
  /\ UNCHANGED runner

consolidationPlanned_ignoringSkip(skip, chain) == chain # NoChain
\* if (!config.skipConsolidation && consolidateToChain)
consolidationPlanned(skip, chain) == ~skip /\ chain # NoChain

\* a run of the workflow after fetchPricesStep: the input of
\* analyzeChainDistributionStep
ChainAnalysisInit ==
  /\ scenario \in 1..Len(Scenarios)
  /\ consolidateToChain = Input.consolidateToChain
  /\ skipConsolidation \in BOOLEAN
  /\ forceRebalance \in BOOLEAN
  /\ world = Input.balances
  /\ pc = "analyze_chains"
  /\ enhancedPortfolio = <<>>
  /\ consolidationPlan = <<>>
  /\ subTradeIndex = 0
  /\ consolidationResults = <<>>
  /\ updatedPortfolio = <<>>
  /\ maxDrift = Zero
  /\ prevMaxDrift = Zero
  /\ needsRebalancing = FALSE
  /\ iterationsCompleted = 0
  /\ currentPortfolio = <<>>
  /\ totalValueUSD = Zero
  /\ plan = <<>>
  /\ queue = <<>>
  /\ tokenToSell = NoBalance
  /\ requests = <<>>
  /\ fetches = 0
  /\ allRebalancingResults = <<>>
  /\ totalVolumeUSD = Zero
  /\ exitReason = "none"
  /\ finalAllocation = <<>>
  /\ faults = 0
  /\ splitIn = NoSplit
  /\ splitOut = <<>>
  /\ rebalancingPlan = <<>>
  /\ summary = NoSummary
  /\ inputData = NoInput
  /\ normalizedTargetAllocation = <<>>
  /\ priceFetch = NoPriceFetch
  /\ runner = NoRunner

\* analyzeChainDistributionStep: fetch the portfolio, choose the chain,
\* build the consolidation plan
AnalyzeChainDistributionStep ==
  /\ pc = "analyze_chains"
  /\ UNCHANGED <<fetchVars, skipConsolidation, scenario, subTradeIndex,
                 consolidationResults, updatedPortfolio, rebalancingPlan, summary,
                 world, forceRebalance, needsRebalancing, iterationsCompleted,
                 currentPortfolio, totalValueUSD, maxDrift, prevMaxDrift, plan,
                 queue, tokenToSell, requests, fetches, allRebalancingResults,
                 totalVolumeUSD, exitReason, finalAllocation, splitIn, splitOut>>
  /\ \E failed \in FetchOutcomes :
       LET fetched == IF failed THEN <<>> ELSE getPortfolio(world)
           chosen == IF ~skipConsolidation /\ consolidateToChain = NoChain
                     THEN determineOptimalConsolidationChain(fetched)
                     ELSE consolidateToChain
       IN /\ faults' = IF failed THEN faults + 1 ELSE faults
          /\ enhancedPortfolio' = fetched
          /\ consolidateToChain' = chosen
          /\ consolidationPlan' = IF consolidationPlanned(skipConsolidation, chosen)
                                  THEN consolidationPlanTo(fetched, chosen)
                                  ELSE <<>>
  /\ pc' = "consolidation"
  /\ UNCHANGED runner

\* executeConsolidationStep with a plan: the loop over the moves starts
BeginConsolidation ==
  /\ pc = "consolidation"
  /\ ~(consolidationPlan = <<>> \/ skipConsolidation)
  /\ pc' = "consolidate"
  /\ UNCHANGED <<fetchVars, chainVars, scenario, consolidationPlan, subTradeIndex,
                 consolidationResults, updatedPortfolio, rebalancingPlan, summary,
                 world, forceRebalance, needsRebalancing, iterationsCompleted,
                 currentPortfolio, totalValueUSD, maxDrift, prevMaxDrift, plan,
                 queue, tokenToSell, requests, fetches, allRebalancingResults,
                 totalVolumeUSD, exitReason, finalAllocation, faults, splitIn,
                 splitOut>>
  /\ UNCHANGED runner

\* if (!chainAnalysis.consolidationPlan || config.skipConsolidation): the
\* step returns the portfolio it was given, then analyzeAllocationStep
SkipConsolidation ==
  /\ pc = "consolidation"
  /\ consolidationPlan = <<>> \/ skipConsolidation
  /\ LET drift == MaxDriftOf(enhancedPortfolio, TotalValueUSD(enhancedPortfolio))
         needed == analysisNeedsRebalancing(forceRebalance, drift)
     IN /\ updatedPortfolio' = enhancedPortfolio
        /\ totalValueUSD' = TotalValueUSD(enhancedPortfolio)
        /\ maxDrift' = drift
        /\ prevMaxDrift' = drift
        /\ needsRebalancing' = needed
        /\ rebalancingPlan' = analysisRebalancingPlan(enhancedPortfolio, needed)
  /\ consolidationResults' = <<>>
  /\ pc' = "start"
  /\ UNCHANGED <<fetchVars, chainVars, scenario, consolidationPlan, subTradeIndex,
                 summary, world, forceRebalance, iterationsCompleted,
                 currentPortfolio, plan, queue, tokenToSell, requests, fetches,
                 allRebalancingResults, totalVolumeUSD, exitReason,
                 finalAllocation, faults, splitIn, splitOut>>
  /\ UNCHANGED runner

\* bootstrap guard: sell the largest non-target holding to USDC, then continue
BootstrapSell ==
  /\ pc = "bootstrap"
  /\ LET req == BootstrapRequest(tokenToSell, iterationsCompleted) IN
     \E out \in ToolOutcomes(req) :
       /\ world' = out.world
       /\ faults' = faults + out.fault
       /\ requests' = Append(requests, Logged(req, out))
       /\ IF out.success
          THEN /\ allRebalancingResults' = Append(allRebalancingResults, Result(req, out))
               /\ totalVolumeUSD' = RAdd(totalVolumeUSD,
                                         RMul(tokenToSell.amount, Price(tokenToSell.symbol)))
          ELSE UNCHANGED <<allRebalancingResults, totalVolumeUSD>>
  /\ pc' = "loop"
  /\ UNCHANGED <<fetchVars, chainVars, scenario, consolidationPlan, subTradeIndex, consolidationResults,
                 updatedPortfolio, rebalancingPlan, summary, forceRebalance, needsRebalancing, iterationsCompleted,
                 currentPortfolio, totalValueUSD, maxDrift, prevMaxDrift, plan,
                 queue, tokenToSell, fetches, exitReason, finalAllocation,
                 splitIn, splitOut>>
  /\ UNCHANGED runner

\* one sub-trade of the iteration: req is what executeSingleTrade asks for
ExecuteSubTrade(trade, req) ==
  IF req.tool = "none"
  THEN UNCHANGED <<world, faults, requests, allRebalancingResults, totalVolumeUSD>>
  ELSE \E out \in ToolOutcomes(req) :
         /\ world' = out.world
         /\ faults' = faults + out.fault
         /\ requests' = Append(requests, Logged(req, out))
         /\ allRebalancingResults' = Append(allRebalancingResults, Result(req, out))
         /\ totalVolumeUSD' = IF out.success
                              THEN RAdd(totalVolumeUSD, trade.differenceValueUSD)
                              ELSE totalVolumeUSD

\* for (const trade of splitSellTrades): sells use the iteration's snapshot
ExecuteSellSubTrade ==
  /\ pc = "exec"
  /\ queue # <<>>
  /\ Head(queue).action = "sell"
  /\ ExecuteSubTrade(Head(queue),
                     SellRequest(Head(queue), currentPortfolio, iterationsCompleted))
  /\ queue' = Tail(queue)
  /\ UNCHANGED <<fetchVars, chainVars, pc, scenario, consolidationPlan, subTradeIndex, consolidationResults,
                 updatedPortfolio, rebalancingPlan, summary, forceRebalance, needsRebalancing,
                 iterationsCompleted, currentPortfolio, totalValueUSD, maxDrift,
                 prevMaxDrift, plan, tokenToSell, fetches, exitReason,
                 finalAllocation, splitIn, splitOut>>
  /\ UNCHANGED runner

refreshedPortfolio_snapshot == currentPortfolio

\* refreshedPortfolio = await getPortfolio.execute(...) before each buy
refreshedPortfolio == getPortfolio(world)

\* for (const trade of splitBuyTrades): portfolio refreshed before each buy;
\* a failed refresh answers with no balances and the buy finds no stablecoin
ExecuteBuySubTrade ==
  /\ pc = "exec"
  /\ queue # <<>>
  /\ Head(queue).action = "buy"
  /\ \E failed \in FetchOutcomes :
       IF failed
       THEN \* no stablecoin in an empty portfolio: executeSingleTrade asks nothing
            /\ faults' = faults + 1
            /\ UNCHANGED <<world, requests, allRebalancingResults, totalVolumeUSD>>
       ELSE ExecuteSubTrade(Head(queue),
                            BuyRequest(Head(queue), refreshedPortfolio, iterationsCompleted))
  /\ queue' = Tail(queue)
  /\ fetches' = fetches + 1
  /\ UNCHANGED <<fetchVars, chainVars, pc, scenario, consolidationPlan, subTradeIndex, consolidationResults,
                 updatedPortfolio, rebalancingPlan, summary, forceRebalance, needsRebalancing,
                 iterationsCompleted, currentPortfolio, totalValueUSD, maxDrift,
                 prevMaxDrift, plan, tokenToSell, exitReason, finalAllocation,
                 splitIn, splitOut>>
  /\ UNCHANGED runner

\* end of the loop body: config.forceRebalance = false
FinishIteration ==
  /\ pc = "exec"
  /\ queue = <<>>
  /\ forceRebalance' = FALSE
  /\ pc' = "loop"
  /\ UNCHANGED <<fetchVars, chainVars, scenario, consolidationPlan, subTradeIndex, consolidationResults,
                 updatedPortfolio, rebalancingPlan, summary, world, needsRebalancing, iterationsCompleted,
                 currentPortfolio, totalValueUSD, maxDrift, prevMaxDrift, plan,
                 queue, tokenToSell, requests, fetches, allRebalancingResults,
                 totalVolumeUSD, exitReason, finalAllocation, faults,
                 splitIn, splitOut>>
  /\ UNCHANGED runner

\* final allocation: value of each target symbol over the value of the target symbols
FinalAllocationOf(balances) ==
  LET Value(sym) == RMul(SymbolTotal(balances, sym), Price(sym))
      finalTotalValue == RSum([i \in 1..Len(targetAllocation) |->
                                Value(targetAllocation[i].symbol)])
  IN [i \in 1..Len(targetAllocation) |->
       [symbol |-> targetAllocation[i].symbol,
        percent |-> IF RLt(Zero, finalTotalValue)
                    THEN RDiv(Value(targetAllocation[i].symbol), finalTotalValue)
                    ELSE Zero]]

\* after the loop: final portfolio fetch and the step's output
ComputeFinalAllocation ==
  /\ pc = "final"
  /\ finalAllocation' = FinalAllocationOf(getPortfolio(world))
  /\ fetches' = fetches + 1
  /\ pc' = "done"
  /\ UNCHANGED <<fetchVars, chainVars, scenario, consolidationPlan, subTradeIndex, consolidationResults,
                 updatedPortfolio, rebalancingPlan, summary, world, forceRebalance, needsRebalancing,
                 iterationsCompleted, currentPortfolio, totalValueUSD, maxDrift,
                 prevMaxDrift, plan, queue, tokenToSell, requests,
                 allRebalancingResults, totalVolumeUSD, exitReason, faults,
                 splitIn, splitOut>>
  /\ UNCHANGED runner

\* generateReportStep: largest |finalAllocation[symbol] - targetPercent| over the targets
maxDriftAfterOf(final) ==
  LET finalPercent(symbol) ==
        LET i == FirstIndex(final, LAMBDA a : a.symbol = symbol)
        IN IF i = 0 THEN Zero ELSE final[i].percent
      f[i \in 0..Len(targetAllocation)] ==
        IF i = 0 THEN Zero
        ELSE RMax(f[i - 1], RAbs(RSub(finalPercent(targetAllocation[i].symbol),
                                      targetAllocation[i].percent)))
  IN f[Len(targetAllocation)]

\* generateReportStep: the summary built from the output of the rebalancing step
GenerateReport ==
  /\ pc = "done"
  /\ summary' =
       [rebalancingRequired |-> needsRebalancing,
        rebalancingTrades |->
          Cardinality({i \in 1..Len(allRebalancingResults) :
                         allRebalancingResults[i].success}),
        iterationsCompleted |-> iterationsCompleted,
        totalVolumeUSD |-> totalVolumeUSD,
        allocationFinal |-> finalAllocation,
        maxDriftAfter |-> maxDriftAfterOf(finalAllocation)]
  /\ pc' = "reported"
  /\ UNCHANGED <<fetchVars, chainVars, scenario, consolidationPlan, subTradeIndex, consolidationResults,
                 updatedPortfolio, rebalancingPlan, world, forceRebalance, needsRebalancing,
                 iterationsCompleted, currentPortfolio, totalValueUSD, maxDrift,
                 prevMaxDrift, plan, queue, tokenToSell, requests, fetches,
                 allRebalancingResults, totalVolumeUSD, exitReason,
                 finalAllocation, faults, splitIn, splitOut>>
  /\ UNCHANGED runner

----------------------------------------------------------------------------
(* splitTradeIntoSubTrades applied to inputs drawn from bounded sets       *)

SplitTrade(action, value, price) ==
  [action |-> action, symbol |-> "WETH", currentAmount |-> RInt(100),
   targetAmount |-> IF action = "buy" THEN RAdd(RInt(100), RDiv(value, price))
                    ELSE RSub(RInt(100), RDiv(value, price)),
   differenceAmount |-> RDiv(value, price), differenceValueUSD |-> value,
   priority |-> RInt(40), preferredChain |-> "eth"]

SplitValues == {RInt(5000 * k) : k \in 0..MaxSplitUnits}
SplitTotals == {RInt(-100000), Zero, RInt(30000), RInt(100000)}
SplitPercents == {<<-1, 4>>, Zero, <<1, 10>>, MAX_TRADE_SIZE_PERCENT, One}

SplitInit ==
  /\ pc = "split"
  /\ splitIn \in {[trade |-> SplitTrade(a, v, RInt(2000)), total |-> t, percent |-> f] :
                    a \in {"buy", "sell"}, v \in SplitValues,
                    t \in SplitTotals, f \in SplitPercents}
  /\ splitOut = <<>>
  /\ scenario = 1
  /\ consolidateToChain = Input.consolidateToChain
  /\ forceRebalance = FALSE
  /\ world = <<>>
  /\ maxDrift = Zero
  /\ prevMaxDrift = Zero
  /\ needsRebalancing = FALSE
  /\ iterationsCompleted = 0
  /\ currentPortfolio = <<>>
  /\ totalValueUSD = Zero
  /\ plan = <<>>
  /\ queue = <<>>
  /\ tokenToSell = NoBalance
  /\ requests = <<>>
  /\ fetches = 0
  /\ allRebalancingResults = <<>>
  /\ totalVolumeUSD = Zero
  /\ exitReason = "none"
  /\ finalAllocation = <<>>
  /\ faults = 0
  /\ rebalancingPlan = <<>>
  /\ summary = NoSummary
  /\ consolidationPlan = <<>>
  /\ subTradeIndex = 0
  /\ consolidationResults = <<>>
  /\ updatedPortfolio = <<>>
  /\ inputData = NoInput
  /\ normalizedTargetAllocation = <<>>
  /\ priceFetch = NoPriceFetch
  /\ skipConsolidation = FALSE
  /\ enhancedPortfolio = <<>>
  /\ runner = NoRunner

ApplySplit ==
  /\ pc = "split"
  /\ splitOut' = splitTradeIntoSubTrades(splitIn.trade, splitIn.total, splitIn.percent)
  /\ pc' = "split_done"
  /\ UNCHANGED <<fetchVars, chainVars, scenario, consolidationPlan, subTradeIndex, consolidationResults,
                 updatedPortfolio, rebalancingPlan, summary, world, forceRebalance, needsRebalancing,
                 iterationsCompleted, currentPortfolio, totalValueUSD, maxDrift,
                 prevMaxDrift, plan, queue, tokenToSell, requests, fetches,
                 allRebalancingResults, totalVolumeUSD, exitReason,
                 finalAllocation, faults, splitIn>>
  /\ UNCHANGED runner

\* the percentage inputs the input schema admits: optional numbers 0..100
OptionalPercents == {<<>>} \cup {<<p>> : p \in 0..MaxPercent}

FetchInit ==
  /\ pc = "fetch_prices"
  /\ inputData \in [usdcPercent : OptionalPercents, wethPercent : OptionalPercents,
                    usdtPercent : OptionalPercents, solPercent : OptionalPercents]
  /\ normalizedTargetAllocation = <<>>
  /\ priceFetch = NoPriceFetch
  /\ splitIn = [trade |-> SplitTrade("buy", Zero, RInt(2000)), total |-> Zero,
                percent |-> Zero]
  /\ splitOut = <<>>
  /\ scenario = 1
  /\ consolidateToChain = Input.consolidateToChain
  /\ forceRebalance = FALSE
  /\ world = <<>>
  /\ maxDrift = Zero
  /\ prevMaxDrift = Zero
  /\ needsRebalancing = FALSE
  /\ iterationsCompleted = 0
  /\ currentPortfolio = <<>>
  /\ totalValueUSD = Zero
  /\ plan = <<>>
  /\ queue = <<>>
  /\ tokenToSell = NoBalance
  /\ requests = <<>>
  /\ fetches = 0
  /\ allRebalancingResults = <<>>
  /\ totalVolumeUSD = Zero
  /\ exitReason = "none"
  /\ finalAllocation = <<>>
  /\ faults = 0
  /\ rebalancingPlan = <<>>
  /\ summary = NoSummary
  /\ consolidationPlan = <<>>
  /\ subTradeIndex = 0
  /\ consolidationResults = <<>>
  /\ updatedPortfolio = <<>>
  /\ skipConsolidation = FALSE
  /\ enhancedPortfolio = <<>>
  /\ runner = NoRunner

\* fetchPricesStep.execute: the target allocation, then the call of getPrice
FetchPricesStep ==
  /\ pc = "fetch_prices"
  /\ LET raw == rawAllocation(inputData)
     IN IF raw # <<>> /\ ~NumLt(ZeroNum, totalPercent(raw))
        THEN \* throw new Error("Allocation percentages must sum to a positive number")
             /\ pc' = "input_error"
             /\ UNCHANGED <<normalizedTargetAllocation, priceFetch>>
        ELSE /\ normalizedTargetAllocation' =
                  IF raw = <<>> THEN DefaultTargetAllocation
                  ELSE normalize(raw, totalPercent(raw))
             /\ \E success \in BOOLEAN :
                  priceFetch' = [calls |-> priceFetch.calls + 1, success |-> success]
             /\ pc' = "prices_fetched"
  /\ UNCHANGED <<chainVars, inputData, scenario, consolidationPlan, subTradeIndex,
                 consolidationResults, updatedPortfolio, rebalancingPlan, summary,
                 world, forceRebalance, needsRebalancing, iterationsCompleted,
                 currentPortfolio, totalValueUSD, maxDrift, prevMaxDrift, plan,
                 queue, tokenToSell, requests, fetches, allRebalancingResults,
                 totalVolumeUSD, exitReason, finalAllocation, faults, splitIn,
                 splitOut>>
  /\ UNCHANGED runner

----------------------------------------------------------------------------

----------------------------------------------------------------------------
(* runner.ts: the bot that runs the workflow at intervals                  *)

INTERVAL_MIN == 15

RunnerPositions == {"runner_main", "runner_running", "runner_waiting", "runner_exit"}

\* outcomes of await mastra.getWorkflow(...).createRun().start({})
RunOutcomes == {"resolved", "thrown"}

\* setTimeout delay: INTERVAL_MIN * 60 * 1000 after the try block, 60 * 1000
\* in the catch block
nextRunDelay(outcome) ==
  IF outcome = "resolved" THEN INTERVAL_MIN * 60 * 1000 ELSE 60 * 1000

\* runTradingBot up to its await: the workflow run is started
startRun(r) == [r EXCEPT !.inFlight = @ + 1, !.runs = @ + 1]

scheduleNext_twice(r, outcome) ==
  [r EXCEPT !.inFlight = @ - 1, !.settled = @ + 1, !.lastOutcome = outcome,
            !.timers = Append(Append(@, nextRunDelay(outcome)), nextRunDelay(outcome))]

\* runTradingBot after its await: the run has resolved or thrown and one
\* timer for the next call is set
scheduleNext(r, outcome) ==
  [r EXCEPT !.inFlight = @ - 1, !.settled = @ + 1, !.lastOutcome = outcome,
            !.timers = Append(@, nextRunDelay(outcome))]

runnerPosition(r) == IF r.inFlight > 0 THEN "runner_running" ELSE "runner_waiting"

\* the process has loaded runner.ts as its main module
RunnerInit ==
  /\ pc = "runner_main"
  /\ runner = NoRunner
  /\ scenario = 1
  /\ consolidateToChain = Input.consolidateToChain
  /\ skipConsolidation = FALSE
  /\ forceRebalance = FALSE
  /\ world = Input.balances
  /\ enhancedPortfolio = <<>>
  /\ consolidationPlan = <<>>
  /\ subTradeIndex = 0
  /\ consolidationResults = <<>>
  /\ updatedPortfolio = <<>>
  /\ maxDrift = Zero
  /\ prevMaxDrift = Zero
  /\ needsRebalancing = FALSE
  /\ iterationsCompleted = 0
  /\ currentPortfolio = <<>>
  /\ totalValueUSD = Zero
  /\ plan = <<>>
  /\ queue = <<>>
  /\ tokenToSell = NoBalance
  /\ requests = <<>>
  /\ fetches = 0
  /\ allRebalancingResults = <<>>
  /\ totalVolumeUSD = Zero
  /\ exitReason = "none"
  /\ finalAllocation = <<>>
  /\ faults = 0
  /\ splitIn = NoSplit
  /\ splitOut = <<>>
  /\ rebalancingPlan = <<>>
  /\ summary = NoSummary
  /\ inputData = NoInput
  /\ normalizedTargetAllocation = <<>>
  /\ priceFetch = NoPriceFetch

\* if (import.meta.url === ...) runTradingBot(): the first call
RunnerMain ==
  /\ pc = "runner_main"
  /\ runner' = startRun(runner)
  /\ pc' = runnerPosition(runner')
  /\ UNCHANGED <<fetchVars, chainVars, scenario, consolidationPlan, subTradeIndex,
                 consolidationResults, updatedPortfolio, rebalancingPlan, summary,
                 world, forceRebalance, needsRebalancing, iterationsCompleted,
                 currentPortfolio, totalValueUSD, maxDrift, prevMaxDrift, plan,
                 queue, tokenToSell, requests, fetches, allRebalancingResults,
                 totalVolumeUSD, exitReason, finalAllocation, faults, splitIn,
                 splitOut>>

\* the awaited run resolves (then the timer of the try block is set) or
\* throws (then the timer of the catch block is set)
RunSettles ==
  /\ pc \in {"runner_running", "runner_waiting"}
  /\ runner.inFlight > 0
  /\ \E outcome \in RunOutcomes : runner' = scheduleNext(runner, outcome)
  /\ pc' = runnerPosition(runner')
  /\ UNCHANGED <<fetchVars, chainVars, scenario, consolidationPlan, subTradeIndex,
                 consolidationResults, updatedPortfolio, rebalancingPlan, summary,
                 world, forceRebalance, needsRebalancing, iterationsCompleted,
                 currentPortfolio, totalValueUSD, maxDrift, prevMaxDrift, plan,
                 queue, tokenToSell, requests, fetches, allRebalancingResults,
                 totalVolumeUSD, exitReason, finalAllocation, faults, splitIn,
                 splitOut>>

\* a timer fires: its callback calls runTradingBot, which starts a run
TimerFires ==
  /\ pc \in {"runner_running", "runner_waiting"}
  /\ runner.timers # <<>>
  /\ runner.runs < MaxRuns
  /\ runner' = startRun([runner EXCEPT !.timers = Tail(@)])
  /\ pc' = runnerPosition(runner')
  /\ UNCHANGED <<fetchVars, chainVars, scenario, consolidationPlan, subTradeIndex,
                 consolidationResults, updatedPortfolio, rebalancingPlan, summary,
                 world, forceRebalance, needsRebalancing, iterationsCompleted,
                 currentPortfolio, totalValueUSD, maxDrift, prevMaxDrift, plan,
                 queue, tokenToSell, requests, fetches, allRebalancingResults,
                 totalVolumeUSD, exitReason, finalAllocation, faults, splitIn,
                 splitOut>>

\* process.on("SIGINT" / "SIGTERM"): process.exit(0)
RunnerShutdown ==
  /\ pc \in {"runner_running", "runner_waiting"}
  /\ pc' = "runner_exit"
  /\ UNCHANGED <<runner, fetchVars, chainVars, scenario, consolidationPlan, subTradeIndex,
                 consolidationResults, updatedPortfolio, rebalancingPlan, summary,
                 world, forceRebalance, needsRebalancing, iterationsCompleted,
                 currentPortfolio, totalValueUSD, maxDrift, prevMaxDrift, plan,
                 queue, tokenToSell, requests, fetches, allRebalancingResults,
                 totalVolumeUSD, exitReason, finalAllocation, faults, splitIn,
                 splitOut>>

Init ==
  \/ LoopInit \/ ConsolidationInit \/ SplitInit \/ FetchInit \/ ChainAnalysisInit
  \/ RunnerInit

Next ==
  \/ AnalyzeChainDistributionStep
  \/ BeginConsolidation
  \/ SkipConsolidation
  \/ ConsolidationBridge
  \/ ConsolidationSubTrade
  \/ FinishConsolidation
  \/ StartStep
  \/ IterationCapReached
  \/ EvaluateIteration
  \/ BootstrapSell
  \/ ExecuteSellSubTrade
  \/ ExecuteBuySubTrade
  \/ FinishIteration
  \/ ComputeFinalAllocation
  \/ GenerateReport
  \/ ApplySplit
  \/ FetchPricesStep
  \/ RunnerMain
  \/ RunSettles
  \/ TimerFires
  \/ RunnerShutdown

Spec == Init /\ [][Next]_vars

PcValues ==
  {"consolidate", "start", "loop", "bootstrap", "exec", "final", "done", "reported", "split",
   "split_done", "fetch_prices", "prices_fetched", "input_error", "analyze_chains",
   "consolidation"} \cup RunnerPositions

\* the run moves on to another position
PcAdvance ==
  /\ pc \notin {"reported", "split_done", "prices_fetched", "input_error", "runner_exit"}
  /\ pc' \in PcValues \ {pc}

\* the run takes the next sub-trade of the iteration
QueueAdvance == pc = "exec" /\ queue # <<>> /\ queue' = Tail(queue)

\* the consolidation takes the next sub-trade or the next move
ConsolidationAdvance ==
  /\ pc = "consolidate"
  /\ consolidationPlan # <<>>
  /\ \/ subTradeIndex' = subTradeIndex + 1 /\ consolidationPlan' = consolidationPlan
     \/ subTradeIndex' = 0 /\ consolidationPlan' = Tail(consolidationPlan)

\* The step is one sequential async function that is awaited to completion,
\* so it is never starved: a run that can take a step takes one.  Every step
\* of Next changes pc or takes the head of queue (NextAdvances), hence weak
\* fairness of Next is weak fairness of the three advances.
FairSpec ==
  /\ Spec
  /\ WF_pc(PcAdvance)
  /\ WF_queue(QueueAdvance)
  /\ WF_<<consolidationPlan, subTradeIndex>>(ConsolidationAdvance)

----------------------------------------------------------------------------
(* Properties                                                              *)

\* every step of the run is one of the advances FairSpec is fair to
NextAdvances == [][Next => (PcAdvance \/ QueueAdvance \/ ConsolidationAdvance)]_vars

RequestIndices == 1..Len(requests)
EvaluationStep == iterationsCompleted' = iterationsCompleted + 1

\* C1: within one iteration of the loop no sell sub-trade request is issued
\* after a buy sub-trade request, whatever the priorities of the planned
\* trades and whatever the outcome of the sells.
C1_SellsBeforeBuys ==
  \A i \in RequestIndices : \A j \in RequestIndices :
    (/\ i < j
     /\ requests[i].req.iteration = requests[j].req.iteration
     /\ requests[i].req.kind = "buy")
    => requests[j].req.kind # "sell"

\* a buy follows a failed sell in an iteration whose most urgent trade is a buy
C1_Witness ==
  /\ pc = "exec"
  /\ plan # <<>>
  /\ SortByPriority(plan)[1].action = "buy"
  /\ \E i \in RequestIndices : \E j \in RequestIndices :
       /\ i < j
       /\ requests[i].req.iteration = iterationsCompleted
       /\ requests[j].req.iteration = iterationsCompleted
       /\ requests[i].req.kind = "sell"
       /\ ~requests[i].success
       /\ requests[j].req.kind = "buy"

\* C2: the loop runs at most 10 iterations and is left only as converged,
\* exhausted (empty plan) or at the iteration cap; the cap is not an error,
\* the step still returns its final allocation; every run terminates.
C2_Bounded ==
  /\ iterationsCompleted <= 10
  /\ pc = "final" => exitReason \in {"converged", "exhausted", "cap"}
  /\ exitReason = "cap" => iterationsCompleted = 10
  /\ (pc = "done" /\ exitReason = "cap") => Len(finalAllocation) = Len(targetAllocation)

C2_LoopTerminates ==
  [](C2_Bounded) /\ <>(pc \in {"done", "split_done", "prices_fetched", "input_error", "runner_exit"})

\* the run ended at the iteration cap and returned its output
C2_Witness ==
  /\ pc = "done"
  /\ exitReason = "cap"
  /\ iterationsCompleted = 10
  /\ faults > 0

\* C3: an evaluation made with the force flag off that finds
\* maxDrift <= convergenceThreshold stops the loop as converged, without a
\* plan and without a request, and no request is made after the loop.
C3_ConvergedStops ==
  [][/\ (EvaluationStep /\ ~forceRebalance /\ RLe(maxDrift', <<1, 200>>))
        => (/\ pc' = "final"
            /\ exitReason' = "converged"
            /\ plan' = <<>>
            /\ queue' = <<>>
            /\ requests' = requests)
     /\ pc \in {"final", "done", "reported"}
        => (pc' \in {"final", "done", "reported"} /\ requests' = requests)]_vars

\* the loop converged after trading, on a drift between the two thresholds
C3_Witness ==
  /\ pc = "done"
  /\ exitReason = "converged"
  /\ RLt(DEFAULT_REBALANCE_THRESHOLD, maxDrift)
  /\ RLe(maxDrift, convergenceThreshold)
  /\ requests # <<>>

\* C4: in every iteration after the first the convergence check is applied:
\* an evaluation k >= 2 that finds maxDrift <= convergenceThreshold stops
\* the loop, also when the run was started with forceRebalance = true.
C4_ForceFirstIterationOnly ==
  [][(EvaluationStep /\ iterationsCompleted' >= 2
      /\ RLe(maxDrift', convergenceThreshold))
     => (pc' = "final" /\ exitReason' = "converged")]_vars

\* C5: no request to a trade executor tool names the same token on the same
\* chain as source and destination.
C5_NoSelfTrade ==
  \A i \in RequestIndices : ~SameToken(requests[i].req)

\* C6: the amount of every buy request is at most the token amount held in
\* the funding balance it was selected from.
C6_BuyWithinFunding ==
  \A i \in RequestIndices :
    requests[i].req.kind = "buy"
    => RLe(requests[i].req.amount, requests[i].req.held)

SplitDone == pc = "split_done"
SplitMax == RMul(splitIn.total, splitIn.percent)
SplitSingleCase ==
  \/ RLe(splitIn.total, Zero)
  \/ RLe(splitIn.percent, Zero)
  \/ RLe(splitIn.trade.differenceValueUSD, SplitMax)

\* C7: the splitter returns one sub-trade (1 of 1, amount and value
\* unchanged) when total <= 0, fraction <= 0 or value <= total*fraction,
\* otherwise n = ceil(value / (total*fraction)) sub-trades numbered 1..n
\* with amount/n and value/n; 40000 of 100000 at 0.25 gives 2 x 20000.
C7_SplitShape ==
  SplitDone =>
    LET t == splitIn.trade
        n == Len(splitOut)
    IN /\ n >= 1
       /\ SplitSingleCase =>
            /\ n = 1
            /\ splitOut[1].subTradeIndex = 1
            /\ splitOut[1].totalSubTrades = 1
            /\ splitOut[1].differenceAmount = t.differenceAmount
            /\ splitOut[1].differenceValueUSD = t.differenceValueUSD
       /\ ~SplitSingleCase =>
            /\ RLe(t.differenceValueUSD, RMul(RInt(n), SplitMax))
            /\ RLt(RMul(RInt(n - 1), SplitMax), t.differenceValueUSD)
            /\ \A i \in 1..n :
                 /\ splitOut[i].subTradeIndex = i
                 /\ splitOut[i].totalSubTrades = n
                 /\ RMul(RInt(n), splitOut[i].differenceAmount) = t.differenceAmount
                 /\ RMul(RInt(n), splitOut[i].differenceValueUSD) = t.differenceValueUSD
       /\ (/\ splitIn.total = RInt(100000)
           /\ t.differenceValueUSD = RInt(40000)
           /\ splitIn.percent = <<1, 4>>)
          => (/\ n = 2
              /\ \A i \in 1..n : splitOut[i].differenceValueUSD = RInt(20000))

\* the oversized-trade scenario has been split
C7_Witness ==
  /\ SplitDone
  /\ splitIn.total = RInt(100000)
  /\ splitIn.trade.differenceValueUSD = RInt(40000)
  /\ splitIn.percent = <<1, 4>>
  /\ Len(splitOut) = 2

C9_SubTradeBound ==
  /\ (SplitDone /\ RLt(Zero, splitIn.total) /\ RLt(Zero, splitIn.percent))
     => \A i \in 1..Len(splitOut) : RLe(splitOut[i].differenceValueUSD, SplitMax)
  /\ (pc = "exec" /\ RLt(Zero, totalValueUSD))
     => \A i \in 1..Len(queue) :
          RLe(queue[i].differenceValueUSD, RMul(totalValueUSD, <<1, 4>>))

\* the loop queued a trade split into parts, each below the bound
C9_Witness ==
  /\ pc = "exec"
  /\ RLt(Zero, totalValueUSD)
  /\ \E i \in 1..Len(queue) :
       /\ queue[i].totalSubTrades > 1
       /\ RLt(queue[i].differenceValueUSD, RMul(totalValueUSD, <<1, 4>>))

IterationRequests == {i \in RequestIndices : requests[i].req.iteration = iterationsCompleted}

\* C10: when no fetch and no trade has failed, the force flag is off and the
\* iteration just ended made requests that were all filled exactly at
\* snapshot prices, the next evaluation finds a strictly smaller maxDrift or
\* the loop stops.
C10_DriftDecreases ==
  [][(/\ EvaluationStep
      /\ ~forceRebalance
      /\ faults' = 0
      /\ IterationRequests # {}
      /\ \A i \in IterationRequests : requests[i].success)
     => (RLt(maxDrift', maxDrift) \/ pc' = "final")]_vars

SimpleRebalance == scenario \in {1, 12} /\ faults = 0
Held(symbol) == SymbolTotal(getPortfolio(world), symbol)

\* C11: from 1000 USDC with target USDT = 100%, prices 1 and every request
\* fulfilled, the first trade pass leaves 1000 USDT and no USDC, the loop
\* then stops as converged and the final allocation is USDT = 1.0.
C11_SimpleRebalance ==
  SimpleRebalance =>
    /\ (iterationsCompleted >= 1 /\ pc \in {"loop", "final", "done"})
       => (Held("USDT") = RInt(1000) /\ Held("USDC") = Zero)
    /\ pc \in {"final", "done"}
       => (exitReason = "converged" /\ iterationsCompleted = 2)
    /\ pc = "done"
       => \A i \in 1..Len(finalAllocation) :
            finalAllocation[i].percent =
              IF finalAllocation[i].symbol = "USDT" THEN One ELSE Zero

\* the simple run has ended after trading, with USDT reported
C11_Witness ==
  /\ SimpleRebalance
  /\ pc = "done"
  /\ \E i \in RequestIndices : requests[i].success
  /\ \E i \in 1..Len(finalAllocation) : finalAllocation[i].symbol = "USDT"

\* the positions of a run that has the analysis of analyzeAllocationStep
RebalancingPositions ==
  {"start", "loop", "bootstrap", "exec", "final", "done", "reported"}

\* C12: needsRebalancing = forceRebalance OR maxDrift > rebalanceThreshold;
\* when it is false the step fetches no portfolio, requests no exchange,
\* returns iterationsCompleted = 0, no trade and the analyzer's current
\* allocation, and the report shows rebalancingRequired = false.
C12_AlreadyBalanced ==
  /\ pc = "start"
     => (needsRebalancing <=> (forceRebalance \/ RLt(<<1, 1000>>, maxDrift)))
  /\ (pc \in RebalancingPositions /\ ~needsRebalancing) =>
       /\ pc \in {"start", "done", "reported"}
       /\ fetches = 0
       /\ requests = <<>>
       /\ iterationsCompleted = 0
       /\ allRebalancingResults = <<>>
       /\ rebalancingPlan = <<>>
       /\ pc \in {"done", "reported"}
          => finalAllocation = AnalysisAllocation(updatedPortfolio)
       /\ pc = "reported"
          => (/\ ~summary.rebalancingRequired
              /\ summary.rebalancingTrades = 0
              /\ summary.iterationsCompleted = 0
              /\ summary.allocationFinal = finalAllocation)

\* a run whose drift equals the threshold has been reported as not required
C12_Witness ==
  /\ pc = "reported"
  /\ ~needsRebalancing
  /\ maxDrift = DEFAULT_REBALANCE_THRESHOLD
  /\ finalAllocation # <<>>

HeldSet(balances) == {Normalized(balances[i].symbol) : i \in 1..Len(balances)}
HeldAmount(balances, sym) ==
  RSum([i \in 1..Len(balances) |->
         IF Normalized(balances[i].symbol) = sym THEN balances[i].amount ELSE Zero])
ZeroWeight(sym) ==
  \A i \in 1..Len(targetAllocation) :
    targetAllocation[i].symbol = sym => targetAllocation[i].percent = Zero
SnapshotPrice(sym) ==
  IF sym \in DOMAIN Input.prices THEN Input.prices[sym] ELSE Zero
MustLiquidate(balances, sym) ==
  /\ ZeroWeight(sym)
  /\ RLe(<<1, 100>>, RMul(HeldAmount(balances, sym), SnapshotPrice(sym)))
LiquidationComplete(p, balances) ==
  \A sym \in HeldSet(balances) :
    MustLiquidate(balances, sym)
    => \E i \in 1..Len(p) :
         /\ p[i].action = "sell"
         /\ p[i].symbol = sym
         /\ p[i].differenceAmount = HeldAmount(balances, sym)

\* C13: every plan that is built (the analyzer's when needsRebalancing holds,
\* each iteration's) holds, for every held symbol of target weight 0 worth
\* at least minTradeValueUSD, a sell entry of the full amount held over all
\* chains.
C13_LiquidationComplete ==
  /\ needsRebalancing
     => LiquidationComplete(rebalancingPlan, updatedPortfolio)
  /\ pc \in {"bootstrap", "exec"} => LiquidationComplete(plan, currentPortfolio)
  /\ (pc = "final" /\ exitReason = "exhausted")
     => LiquidationComplete(<<>>, currentPortfolio)

\* a plan was built for a portfolio holding a zero-weight symbol on two chains
C13_Witness ==
  /\ pc = "exec"
  /\ \E i \in 1..Len(currentPortfolio) : \E j \in 1..Len(currentPortfolio) :
       /\ i # j
       /\ currentPortfolio[i].symbol = currentPortfolio[j].symbol
       /\ MustLiquidate(currentPortfolio, currentPortfolio[i].symbol)
       /\ \E k \in 1..Len(rebalancingPlan) :
            rebalancingPlan[k].symbol = currentPortfolio[i].symbol

Unpriced(sym) == sym \notin DOMAIN Input.prices \/ Input.prices[sym] = Zero
ValueAtSnapshot(balances) ==
  RSum([i \in 1..Len(balances) |->
         IF Unpriced(Normalized(balances[i].symbol)) THEN Zero
         ELSE RMul(balances[i].amount, Input.prices[Normalized(balances[i].symbol)])])
NoEntryForUnpriced(p) ==
  \A i \in 1..Len(p) : ~Unpriced(p[i].symbol)

\* C14: a held symbol without a price entry (or with price 0) adds 0 to
\* totalValueUSD and has no entry, buy or sell, in the analyzer's plan or in
\* any iteration's plan; building the plans never divides by zero.
C14_UnpricedSymbol ==
  /\ NoEntryForUnpriced(rebalancingPlan)
  /\ NoEntryForUnpriced(plan)
  /\ \A i \in 1..Len(queue) : ~Unpriced(queue[i].symbol)
  /\ pc \in {"bootstrap", "exec"} => totalValueUSD = ValueAtSnapshot(currentPortfolio)
  /\ pc = "start" => totalValueUSD = ValueAtSnapshot(updatedPortfolio)

\* plans were built while a target symbol without a price entry was held
C14_Witness ==
  /\ pc = "exec"
  /\ plan # <<>>
  /\ rebalancingPlan # <<>>
  /\ \E i \in 1..Len(currentPortfolio) :
       /\ Unpriced(currentPortfolio[i].symbol)
       /\ RLt(Zero, currentPortfolio[i].amount)
       /\ ~ZeroWeight(currentPortfolio[i].symbol)

\* the attempts the consolidation plan asks for: one per USDC move, one per
\* sub-trade of every other move
ExpectedAttempts(p, totalValue) ==
  FlatMap(p, LAMBDA move :
    IF move.token = "USDC"
    THEN <<[token |-> move.token, fromChain |-> move.fromChain, index |-> 0]>>
    ELSE [i \in 1..consolidationTradesToExecute(move, totalValue) |->
           [token |-> move.token, fromChain |-> move.fromChain, index |-> i - 1]])
AttemptsOf(results) ==
  [i \in 1..Len(results) |->
    [token |-> results[i].token, fromChain |-> results[i].fromChain,
     index |-> results[i].index]]
InitialAttempts ==
  ExpectedAttempts(consolidationPlanOf(getPortfolio(Input.balances)),
                   chainValuesTotal(getPortfolio(Input.balances)))
ConsolidationAttemptsAll ==
  /\ pc = "consolidate"
     => /\ Len(consolidationResults) <= Len(InitialAttempts)
        /\ AttemptsOf(consolidationResults)
             = SubSeq(InitialAttempts, 1, Len(consolidationResults))
        /\ consolidationPlan = <<>> => Len(consolidationResults) = Len(InitialAttempts)
  /\ (pc \notin {"consolidate", "split", "split_done"} /\ consolidationResults # <<>>)
     => AttemptsOf(consolidationResults) = InitialAttempts
FailedRequestStep ==
  /\ Len(requests') = Len(requests) + 1
  /\ ~requests'[Len(requests')].success
LoopGoesOn ==
  /\ FailedRequestStep
     => /\ exitReason' = exitReason
        /\ pc \in {"bootstrap", "exec"}
        /\ pc' \in {"loop", "exec"}
  /\ (pc = "exec" /\ queue # <<>>) => (pc' = "exec" /\ queue' = Tail(queue))
  /\ (pc = "exec" /\ queue = <<>>) => pc' = "loop"
  /\ pc = "bootstrap" => pc' = "loop"
  /\ (pc = "loop" /\ LoopCondition)
     => (iterationsCompleted' = iterationsCompleted + 1 /\ fetches' = fetches + 1)

\* C15: a failed or throwing exchange attempt never aborts the run.  In the
\* consolidation phase the results always list, in order, an attempt for
\* every sub-trade of every move of the plan, whatever the outcome of the
\* earlier attempts.  In the rebalancing loop a failed attempt leaves the
\* exit reason alone, the next sub-trade of the iteration is taken until
\* none is left, and below the iteration cap the next iteration is entered.
C15_FailureNeverAborts ==
  [](ConsolidationAttemptsAll) /\ [][LoopGoesOn]_vars

\* a reported run in which a consolidation sub-trade failed and was followed
\* by the next sub-trade of its move and by a later move, and in which a
\* loop request failed and was followed by a request of the same iteration
\* and by a request of a later iteration
C15_Witness ==
  /\ pc = "reported"
  /\ \E i \in 1..Len(consolidationResults) :
       /\ ~consolidationResults[i].success
       /\ i < Len(consolidationResults)
       /\ consolidationResults[i + 1].token = consolidationResults[i].token
       /\ consolidationResults[i + 1].index = consolidationResults[i].index + 1
       /\ \E k \in (i + 1)..Len(consolidationResults) :
            consolidationResults[k].token # consolidationResults[i].token
  /\ \E j \in RequestIndices :
       /\ ~requests[j].success
       /\ \E k \in RequestIndices :
            k > j /\ requests[k].req.iteration = requests[j].req.iteration
       /\ \E k \in RequestIndices :
            k > j /\ requests[k].req.iteration > requests[j].req.iteration

\* a step of the loop that makes an exchange attempt: the bootstrap sale or
\* the next sub-trade of the iteration
LoopAttempt == pc = "bootstrap" \/ (pc = "exec" /\ queue # <<>>)
ResultsAppendOnly ==
  /\ Len(allRebalancingResults') >= Len(allRebalancingResults)
  /\ SubSeq(allRebalancingResults', 1, Len(allRebalancingResults))
       = allRebalancingResults

\* C16: every exchange attempt of the rebalancing loop (sell and buy
\* sub-trades, bootstrap sale), failed, skipped and throwing ones included,
\* adds exactly one record to the results, with success = false when the
\* attempt did not succeed; the results are only ever appended to.
C16_EveryAttemptRecorded ==
  [][/\ ResultsAppendOnly
     /\ LoopAttempt
        => /\ Len(allRebalancingResults') = Len(allRebalancingResults) + 1
           /\ allRebalancingResults'[Len(allRebalancingResults')].success
                = (/\ Len(requests') = Len(requests) + 1
                   /\ requests'[Len(requests')].success)]_vars

\* the portfolio fetch at the start of an iteration failed in this step
FailedFetchStep ==
  /\ pc = "loop"
  /\ iterationsCompleted' = iterationsCompleted + 1
  /\ faults' = faults + 1

\* C17: a failed portfolio fetch at the start of an iteration aborts only
\* that iteration: below the iteration cap the loop goes on to a further
\* iteration, which fetches the portfolio again, and the results of the
\* earlier iterations are kept.
C17_FailedFetchSkipsIteration ==
  [][(FailedFetchStep /\ iterationsCompleted' < maxIterations)
     => /\ pc' = "loop"
        /\ exitReason' = exitReason
        /\ allRebalancingResults' = allRebalancingResults]_vars

\* a buy whose token the registry cannot resolve on the preferred chain
UnresolvableBuy(t) ==
  t.action = "buy" /\ ~getTokenInfo(t.symbol, t.preferredChain).ok
UnresolvableRequest(r) == ~FromTokenInfo(r.req).ok \/ ~ToTokenInfo(r.req).ok
\* the iteration that has just ended handed its planned trades to the executor
PreviousIterationExecuted ==
  pc = "loop" /\ plan # <<>> /\ tokenToSell = NoBalance
NoExchangeForUnresolvable ==
  \A i \in RequestIndices :
    UnresolvableRequest(requests[i])
    => (~requests[i].success /\ requests[i].status = "execution_error")
NotRetried ==
  (PreviousIterationExecuted /\ pc' = "exec")
  => \A i \in 1..Len(tradesToExecute(plan)) :
       UnresolvableBuy(tradesToExecute(plan)[i])
       => \A k \in 1..Len(queue') :
            ~(/\ UnresolvableBuy(queue'[k])
              /\ queue'[k].symbol = tradesToExecute(plan)[i].symbol)

\* C18: a planned trade whose token/chain the registry cannot resolve is
\* dropped, no exchange is submitted for it, and it is not retried: once an
\* iteration has attempted it, no later iteration attempts a trade for that
\* token again.
C18_UnresolvableNotRetried ==
  [](NoExchangeForUnresolvable) /\ [][NotRetried]_vars

\* the percentages the input supplies
Supplied(input) ==
  input.usdcPercent \o input.wethPercent \o input.usdtPercent \o input.solPercent

RECURSIVE SumOf(_)
SumOf(numbers) == IF numbers = <<>> THEN 0 ELSE Head(numbers) + SumOf(Tail(numbers))

\* fetchPricesStep has run or has thrown
FetchStepOver == pc \in {"prices_fetched", "input_error"}

\* C19: when the supplied percentages sum to a value <= 0 (every supplied
\* percentage is 0) the run fails with an error before any external call:
\* no price fetch, no portfolio fetch, no exchange request and no report.
C19_ZeroSumFails ==
  (FetchStepOver /\ Supplied(inputData) # <<>> /\ SumOf(Supplied(inputData)) <= 0)
    => /\ pc = "input_error"
       /\ priceFetch.calls = 0
       /\ fetches = 0
       /\ requests = <<>>
       /\ summary = NoSummary

\* 2^-30, below 1e-9
Tolerance == <<0, 0, 1, 0, 0, 0>>
Within(a, b) == ~NumLt(Tolerance, NumAbsDiff(a, b))

\* the step has normalized an input with at least one positive percentage
TargetNormalized == pc = "prices_fetched" /\ rawAllocation(inputData) # <<>>
\* the sum of the fractions as the engine would add them
FractionSum == DoubleSum(Percents(normalizedTargetAllocation))
\* the normalization applied to its own result
Renormalized == normalize(normalizedTargetAllocation, FractionSum)
\* the positive percentages of the input, in the order of rawAllocation
PositivePercents == SelectSeq(Supplied(inputData), LAMBDA p : p > 0)
SameSymbols ==
  /\ Len(normalizedTargetAllocation) = Len(rawAllocation(inputData))
  /\ \A i \in 1..Len(normalizedTargetAllocation) :
       normalizedTargetAllocation[i].symbol = rawAllocation(inputData)[i].symbol

\* C20 as stated: the fractions sum to exactly 1, each is the quotient
\* percent / (sum of the positive percentages), and normalizing the result
\* again leaves it unchanged.
C20_NormalizationExact ==
  TargetNormalized =>
    /\ SameSymbols
    /\ FractionSum = OneNum
    /\ \A i \in 1..Len(normalizedTargetAllocation) :
         normalizedTargetAllocation[i].percent =
           DoubleDiv(NumOfInt(PositivePercents[i]), NumOfInt(SumOf(PositivePercents)))
    /\ Renormalized = normalizedTargetAllocation

\* C20 (amended): the fractions sum to 1 within 1e-9, each fraction times
\* the sum of the positive percentages is the percentage within 1e-9, and
\* normalizing the result again moves no fraction by more than 1e-9.
C20_NormalizationWithinTolerance ==
  TargetNormalized =>
    /\ SameSymbols
    /\ Within(FractionSum, OneNum)
    /\ \A i \in 1..Len(normalizedTargetAllocation) :
         Within(NumTimes(normalizedTargetAllocation[i].percent, SumOf(PositivePercents)),
                NumOfInt(PositivePercents[i]))
    /\ Len(Renormalized) = Len(normalizedTargetAllocation)
    /\ \A i \in 1..Len(normalizedTargetAllocation) :
         /\ Renormalized[i].symbol = normalizedTargetAllocation[i].symbol
         /\ Within(Renormalized[i].percent, normalizedTargetAllocation[i].percent)

\* an input whose fractions do not add up to 1 in doubles and move when
\* they are normalized again
C20_Witness ==
  /\ TargetNormalized
  /\ FractionSum # OneNum
  /\ Renormalized # normalizedTargetAllocation
  /\ Len(normalizedTargetAllocation) > 1

\* C21: with skipConsolidation = true, with or without a consolidation chain
\* given by the user, no consolidation plan is built, the consolidation step
\* makes no exchange request and no simulated transfer (it records no
\* result and leaves the account alone), and the portfolio handed to the
\* analyzer is the one fetched before the step.
C21_SkipDisablesConsolidation ==
  (skipConsolidation /\ pc # "analyze_chains") =>
    /\ consolidationPlan = <<>>
    /\ consolidationResults = <<>>
    /\ pc # "consolidate"
    /\ consolidateToChain = Input.consolidateToChain
    /\ pc \in RebalancingPositions => updatedPortfolio = enhancedPortfolio
    /\ pc \in {"consolidation", "start"} => world = Input.balances /\ requests = <<>>

\* a run with skipConsolidation whose balances lie off the chain the user
\* gave has passed the consolidation step
C21_Witness ==
  /\ skipConsolidation
  /\ pc = "start"
  /\ Input.consolidateToChain # NoChain
  /\ enhancedPortfolio # <<>>
  /\ consolidationPlanTo(enhancedPortfolio, consolidateToChain) # <<>>
  /\ updatedPortfolio = enhancedPortfolio

\* value at snapshot prices of the holding a request sells from
HeldValue(req) == RMul(req.held, Price(Normalized(req.fromSymbol)))

ToolCalled == Len(requests') = Len(requests) + 1
LastCall == requests'[Len(requests')]
\* the call got as far as fetching the balances
BalanceFetched(req) == ~SameToken(req) /\ FromTokenInfo(req).ok /\ ToTokenInfo(req).ok
\* the call posted a trade to the exchange API
Submitted(call) ==
  /\ BalanceFetched(call.req)
  /\ call.status \in {"executed", "bad_request", "execution_error"}
\* the balance, as fetched in the call, of the token the posted trade names
\* as fromToken on fromSpecificChain
SourceBalance(req, balances) ==
  IF PostedBalance(req, balances) = 0 THEN Zero
  ELSE balances[PostedBalance(req, balances)].amount

\* C23: executeTrade and executeTradeByAddress post a trade only if the
\* balance of the source token on the source chain, fetched in the same
\* call, is at least the requested amount; otherwise they answer
\* success = false, insufficient_balance and post nothing; a thrown error
\* becomes a success = false answer.
C23_BalanceValidated ==
  [][ToolCalled =>
       /\ Submitted(LastCall) => RLe(LastCall.req.amount, SourceBalance(LastCall.req, world))
       /\ (BalanceFetched(LastCall.req)
           /\ RLt(SourceBalance(LastCall.req, world), LastCall.req.amount))
            => (LastCall.status = "insufficient_balance" /\ ~LastCall.success /\ world' = world)
       /\ LastCall.status \in {"execution_error", "bad_request"} => ~LastCall.success
       /\ ~LastCall.success => world' = world]_vars

----------------------------------------------------------------------------
(* C24: the bootstrap pass and the iteration counter                       *)

BootstrapCalls == {i \in RequestIndices : requests[i].req.kind = "bootstrap"}
BootstrapPassBegins == pc = "loop" /\ pc' = "bootstrap"

\* C24 as stated: a bootstrap pass is not counted as an iteration, neither
\* the evaluation that leads to the bootstrap sale nor the sale itself
\* advances iterationsCompleted.
C24_BootstrapNotCounted ==
  [][(BootstrapPassBegins \/ pc = "bootstrap")
       => iterationsCompleted' = iterationsCompleted]_vars

\* C24 amended: a bootstrap pass is counted as an iteration. The pass that
\* ends in the bootstrap sale advances iterationsCompleted by one, the sale
\* leaves the counter as it is and goes back to the loop condition, the
\* bootstrap sale carries an iteration number of its own within 1..maxIterations,
\* and every request made after it belongs to an iteration with a higher number.
C24_BootstrapCounted ==
  /\ [][BootstrapPassBegins => iterationsCompleted' = iterationsCompleted + 1]_vars
  /\ [][pc = "bootstrap" => (pc' = "loop" /\ iterationsCompleted' = iterationsCompleted)]_vars
  /\ [](\A i \in BootstrapCalls :
          /\ requests[i].req.iteration \in 1..maxIterations
          /\ requests[i].req.iteration <= iterationsCompleted
          /\ \A j \in RequestIndices :
               /\ j < i => requests[j].req.iteration < requests[i].req.iteration
               /\ j > i => requests[j].req.iteration > requests[i].req.iteration)

\* a request of a later pass follows a bootstrap sale
C24_Witness ==
  \E i \in BootstrapCalls : i < Len(requests)

----------------------------------------------------------------------------
(* C25: a sell of USDC is never routed to USDC                             *)

\* C25: a sell of the bridge asset USDC whose routed destination is USDC is
\* skipped, so no sell request of the loop reaches the trade executor with
\* USDC as both the sold symbol and the destination symbol.
C25_NoUsdcToUsdcSell ==
  \A i \in RequestIndices :
    ~(/\ requests[i].req.kind = "sell"
      /\ requests[i].req.fromSymbol = "USDC"
      /\ requests[i].req.toSymbol = "USDC")

----------------------------------------------------------------------------
(* C26: destination of a sell                                              *)

SellCalls == {i \in RequestIndices : requests[i].req.kind = "sell"}
HighestWeightedTarget == primaryTargetToken[1].symbol

----------------------------------------------------------------------------
(* C27: the plan of a loop iteration against the analyzer's plan           *)

Entries(p) == {p[i] : i \in 1..Len(p)}
PlanBuilt == pc \in {"bootstrap", "exec"}

\* C27: the plan rebuilt inside a loop iteration has the same entries (action,
\* amounts, value, priority and preferredChain) as the plan the analyzer
\* builds for the same balances, prices and config.
C27_LoopPlanIsAnalyzerPlan ==
  PlanBuilt => Entries(plan) = Entries(analysisRebalancingPlan(currentPortfolio, TRUE))

----------------------------------------------------------------------------
(* C28: the drift of the report against the drift of the loop              *)

FinalPortfolio == getPortfolio(world)

\* C28: the report's final allocation and maxDriftAfter are what the loop
\* computes for the final portfolio: each target symbol's value over the value
\* of all held symbols, and the largest distance of that share from its target.
C28_ReportDriftIsLoopDrift ==
  pc = "reported" =>
    /\ summary.allocationFinal = AnalysisAllocation(FinalPortfolio)
    /\ summary.maxDriftAfter = MaxDriftOf(FinalPortfolio, TotalValueUSD(FinalPortfolio))

----------------------------------------------------------------------------
(* C29: the volume of the report                                           *)

LoopKinds == {"bootstrap", "sell", "buy"}
SubmittedValueUSD(req) == RMul(req.amount, Price(Normalized(req.fromSymbol)))
ExecutedVolumeUSD ==
  RSum(FlatMap(requests, LAMBDA r :
    IF r.success /\ r.req.kind \in LoopKinds
    THEN <<SubmittedValueUSD(r.req)>> ELSE <<>>))

\* C29: the volume of the rebalancing loop is the sum, over its successful
\* exchange requests, of the USD value submitted in the request (the capped
\* amount at the snapshot price); the report carries that volume.
C29_VolumeIsSubmittedValue ==
  /\ pc \in RebalancingPositions => totalVolumeUSD = ExecutedVolumeUSD
  /\ pc = "reported" => summary.totalVolumeUSD = ExecutedVolumeUSD

----------------------------------------------------------------------------
(* C30: the convergence threshold against the rebalance threshold          *)

LoopConverged == exitReason = "converged"
FirstEvaluationUnchanged ==
  iterationsCompleted = 1 /\ currentPortfolio = getPortfolio(updatedPortfolio)

\* C30: the convergence threshold is tighter than the rebalance threshold:
\* a drift the loop accepts as converged is a drift the analyzer accepts as
\* balanced, and a run started without force never converges on its first
\* evaluation of the portfolio the analyzer saw.
C30_ConvergenceTighter ==
  /\ LoopConverged => ~analysisNeedsRebalancing(FALSE, maxDrift)
  /\ ~(LoopConverged /\ ~forceRebalance /\ FirstEvaluationUnchanged)

----------------------------------------------------------------------------
(* C31: the trades of an iteration                                         *)

ExecutionBegins == pc = "loop" /\ pc' = "exec"
FirstSubTrades(q) == {i \in 1..Len(q) : q[i].subTradeIndex = 1}
Scheduled(q, entry) ==
  \E i \in 1..Len(q) : /\ q[i].symbol = entry.symbol
                       /\ q[i].action = entry.action
                       /\ q[i].priority = entry.priority
TradedSymbol(req) == IF req.kind = "sell" THEN req.fromSymbol ELSE req.toSymbol
TradesOfIteration(k) ==
  {<<requests[i].req.kind, TradedSymbol(requests[i].req)>> :
     i \in {j \in RequestIndices : /\ requests[j].req.iteration = k
                                    /\ requests[j].req.kind \in {"sell", "buy"}}}

\* C31: an iteration that reaches execution schedules at most
\* maxTradesPerIteration planned trades, no plan entry left out has a strictly
\* higher priority than a scheduled one, and the sell and buy requests of an
\* iteration concern at most maxTradesPerIteration trades.
C31_TopPriorityTrades ==
  /\ [][ExecutionBegins =>
          /\ Cardinality(FirstSubTrades(queue')) <= maxTradesPerIteration
          /\ Cardinality(FirstSubTrades(queue')) <= Len(plan')
          /\ \A i \in 1..Len(plan') :
               (\E j \in 1..Len(queue') : RLt(queue'[j].priority, plan'[i].priority))
                 => Scheduled(queue', plan'[i])]_vars
  /\ [](\A k \in 1..maxIterations :
          Cardinality(TradesOfIteration(k)) <= maxTradesPerIteration)

\* an iteration with more planned trades than the cap has executed three of them
C31_Witness ==
  /\ pc = "exec"
  /\ Len(plan) > maxTradesPerIteration
  /\ queue = <<>>
  /\ Cardinality(TradesOfIteration(iterationsCompleted)) = maxTradesPerIteration

----------------------------------------------------------------------------
(* C32: the portfolio a buy is funded from                                 *)

BuyCalled == ToolCalled /\ LastCall.req.kind = "buy"
FundedFrom(req, balances) ==
  \E i \in 1..Len(balances) :
    /\ balances[i].symbol = req.fromSymbol
    /\ balances[i].specificChain = req.fromSpecificChain
    /\ balances[i].amount = req.held
    /\ RLt(Zero, balances[i].amount)

\* C32: every buy request comes with a portfolio fetch of its own, and the
\* balance that funds the buy is a balance of the account as that fetch finds
\* it, not as the snapshot of the iteration had it.
C32_BuyUsesFreshPortfolio ==
  [][BuyCalled => /\ fetches' = fetches + 1
                  /\ FundedFrom(LastCall.req, world)]_vars

\* a buy was funded from a balance the snapshot of its iteration does not hold
C32_Witness ==
  /\ pc = "exec"
  /\ \E i \in RequestIndices :
       /\ requests[i].req.kind = "buy"
       /\ requests[i].req.iteration = iterationsCompleted
       /\ ~FundedFrom(requests[i].req, currentPortfolio)

----------------------------------------------------------------------------
(* C33: the consolidation plan                                             *)

PlanReady == pc = "consolidation"
MoveIndices == 1..Len(consolidationPlan)
PositionValue(token, chain) ==
  RMul(tokenDistribution(enhancedPortfolio, token, chain), Price(token))
WorthMoving(token, chain) ==
  /\ chain # consolidateToChain
  /\ RLt(Zero, tokenDistribution(enhancedPortfolio, token, chain))
  /\ RLe(DEFAULT_MIN_TRADE_VALUE_USD, PositionValue(token, chain))
MovesFor(token, chain) ==
  {i \in MoveIndices : /\ consolidationPlan[i].token = token
                       /\ consolidationPlan[i].fromChain = chain}

\* C33: every move of the consolidation plan leaves a chain other than the
\* selected one for the selected one, with a positive amount worth at least
\* minTradeValueUSD; every position worth moving has exactly one move; the
\* moves are in descending order of value.
C33_ConsolidationPlanShape ==
  (PlanReady /\ consolidationPlan # <<>>) =>
    /\ \A i \in MoveIndices :
         LET move == consolidationPlan[i]
         IN /\ move.fromChain # consolidateToChain
            /\ move.toChain = consolidateToChain
            /\ RLt(Zero, move.amount)
            /\ RLe(DEFAULT_MIN_TRADE_VALUE_USD, move.valueUSD)
            /\ move.amount = tokenDistribution(enhancedPortfolio, move.token, move.fromChain)
            /\ move.valueUSD = PositionValue(move.token, move.fromChain)
    /\ \A token \in HeldSet(enhancedPortfolio), chain \in SUPPORTED_CHAINS :
         Cardinality(MovesFor(token, chain)) = IF WorthMoving(token, chain) THEN 1 ELSE 0
    /\ \A i \in MoveIndices, j \in MoveIndices :
         i < j => RLe(consolidationPlan[j].valueUSD, consolidationPlan[i].valueUSD)

\* a plan of several moves of different value that leaves a holding on the
\* selected chain where it is
C33_Witness ==
  /\ PlanReady
  /\ Len(consolidationPlan) >= 2
  /\ RLt(consolidationPlan[2].valueUSD, consolidationPlan[1].valueUSD)
  /\ \E i \in 1..Len(enhancedPortfolio) :
       enhancedPortfolio[i].specificChain = consolidateToChain

----------------------------------------------------------------------------
(* C34: automatic selection of the consolidation chain                     *)

AutoSelected ==
  pc = "consolidation" /\ Input.consolidateToChain = NoChain /\ ~skipConsolidation
ChainsWithValue ==
  {c \in SUPPORTED_CHAINS : RLt(Zero, chainValues(enhancedPortfolio, c))}
\* 0-based position of the chain in the symbol's preference list, -1 if absent
RankOf(symbol, chain) ==
  IF symbol \in DOMAIN ChainPreferenceList
     /\ \E k \in 1..Len(ChainPreferenceList[symbol]) : ChainPreferenceList[symbol][k] = chain
  THEN (CHOOSE k \in 1..Len(ChainPreferenceList[symbol]) :
          ChainPreferenceList[symbol][k] = chain) - 1
  ELSE -1
ScoreOf(chain) ==
  RAdd(chainValues(enhancedPortfolio, chain),
       RSum([i \in 1..Len(targetAllocation) |->
              IF RLt(Zero, targetAllocation[i].percent)
                 /\ RankOf(targetAllocation[i].symbol, chain) >= 0
              THEN <<1000, RankOf(targetAllocation[i].symbol, chain) + 1>>
              ELSE Zero]))

\* C34: with no chain given and consolidation not skipped, no chain is
\* selected and no move planned when at most one chain holds value;
\* otherwise the selected chain holds value and no chain holding value has a
\* higher score.
C34_AutoSelectsBestScore ==
  AutoSelected =>
    IF Cardinality(ChainsWithValue) <= 1
    THEN consolidateToChain = NoChain /\ consolidationPlan = <<>>
    ELSE /\ consolidateToChain \in ChainsWithValue
         /\ \A c \in ChainsWithValue : RLe(ScoreOf(c), ScoreOf(consolidateToChain))

\* the preference bonus decides: the selected chain holds less value than
\* another chain
C34_Witness ==
  /\ AutoSelected
  /\ consolidateToChain # NoChain
  /\ \E c \in ChainsWithValue :
       RLt(chainValues(enhancedPortfolio, consolidateToChain),
           chainValues(enhancedPortfolio, c))

\* a single chain holds value: nothing is selected
C34_WitnessSingleChain ==
  AutoSelected /\ Cardinality(ChainsWithValue) = 1 /\ consolidateToChain = NoChain

----------------------------------------------------------------------------
(* C35: bridge moves and sells of the consolidation                        *)

MoveActed ==
  pc = "consolidate" /\ consolidationPlan # <<>>
  /\ consolidationResults' # consolidationResults
CurrentMove == Head(consolidationPlan)
NewResult == consolidationResults'[Len(consolidationResults')]

\* C35: a move of USDC calls no trade executor and adds exactly one result,
\* successful, with status simulated_bridge_transfer; a move of another
\* token only sells that token to USDC, source and destination chain both
\* being the chain the move leaves.
C35_BridgeOrSellOnSourceChain ==
  [][MoveActed =>
       /\ Len(consolidationResults') = Len(consolidationResults) + 1
       /\ SubSeq(consolidationResults', 1, Len(consolidationResults)) = consolidationResults
       /\ requests' = requests
       /\ IF CurrentMove.token = "USDC"
          THEN /\ NewResult.call = NoRequest
               /\ NewResult.success
               /\ NewResult.status = "simulated_bridge_transfer"
               /\ world' = world
               /\ consolidationPlan' = Tail(consolidationPlan)
          ELSE /\ NewResult.call.tool = "executeTrade"
               /\ NewResult.call.fromSymbol = CurrentMove.token
               /\ NewResult.call.toSymbol = "USDC"
               /\ NewResult.call.fromSpecificChain = CurrentMove.fromChain
               /\ NewResult.call.toSpecificChain = CurrentMove.fromChain]_vars

\* a consolidation that made a bridge move and sold another token
C35_Witness ==
  /\ \E i \in 1..Len(consolidationResults) :
       consolidationResults[i].status = "simulated_bridge_transfer"
  /\ \E i \in 1..Len(consolidationResults) :
       /\ consolidationResults[i].call # NoRequest
       /\ consolidationResults[i].success

----------------------------------------------------------------------------
(* C36: splitting of a consolidation move                                  *)

SellResults == {i \in 1..Len(consolidationResults) : consolidationResults[i].call # NoRequest}
SameMove(i, j) ==
  /\ consolidationResults[i].token = consolidationResults[j].token
  /\ consolidationResults[i].fromChain = consolidationResults[j].fromChain
\* USD value of the move a sell belongs to
MoveValueUSD(i) ==
  RMul(consolidationResults[i].call.held, Price(consolidationResults[i].token))
PortfolioValueAtAnalysis == chainValuesTotal(getPortfolio(Input.balances))
MoveFinished(i) ==
  \A k \in 1..Len(consolidationPlan) :
    ~(/\ consolidationPlan[k].token = consolidationResults[i].token
      /\ consolidationPlan[k].fromChain = consolidationResults[i].fromChain)
SoldOfMove(i) ==
  RSum([j \in 1..Len(consolidationResults) |->
         IF j \in SellResults /\ SameMove(i, j)
         THEN consolidationResults[j].call.amount ELSE Zero])

\* the sells of one move ask for equal amounts, which sum to the amount of
\* the move once the move is finished
C36_EqualSharesSumToMove ==
  \A i \in SellResults :
    /\ \A j \in SellResults :
         SameMove(i, j) => consolidationResults[j].call.amount = consolidationResults[i].call.amount
    /\ MoveFinished(i) => SoldOfMove(i) = consolidationResults[i].call.held

\* C36: a move of a token other than USDC is sold in more than one request
\* only when its value exceeds both 20% of its own value and 25% of the
\* value of the portfolio; the amounts of a split move are equal and sum to
\* the amount of the move.
C36_SplitOnlyLargeMoves ==
  /\ \A i \in SellResults :
       consolidationResults[i].index >= 1 =>
         /\ RLt(RMul(MoveValueUSD(i), <<1, 5>>), MoveValueUSD(i))
         /\ RLt(RMul(PortfolioValueAtAnalysis, <<1, 4>>), MoveValueUSD(i))
  /\ C36_EqualSharesSumToMove

\* a finished move that was split into several sells
C36_WitnessSplit ==
  \E i \in SellResults : consolidationResults[i].index >= 1 /\ MoveFinished(i)

----------------------------------------------------------------------------
(* C37: one plan entry per symbol                                          *)

OneEntryPerSymbol(p) ==
  \A i \in 1..Len(p), j \in 1..Len(p) : i # j => p[i].symbol # p[j].symbol

\* C37: neither the plan the analyzer builds nor the plan a loop iteration
\* builds holds two entries for one symbol, whatever the target allocation.
C37_OneEntryPerSymbol ==
  /\ [][rebalancingPlan' # rebalancingPlan => OneEntryPerSymbol(rebalancingPlan')]_vars
  /\ [](OneEntryPerSymbol(plan))

\* the plan of the loop alone
C37_LoopOneEntryPerSymbol == OneEntryPerSymbol(plan)

\* two sub-trades of one symbol from different plan entries are queued in
\* one iteration
C37_ScheduledTwice ==
  /\ pc = "exec"
  /\ ~OneEntryPerSymbol(plan)

----------------------------------------------------------------------------
(* C38: size of an iteration                                               *)

\* maxTradesPerIteration trades of at most 4 sub-trades each
MaxRequestsPerIteration == maxTradesPerIteration * 4
SellBuyRequests(k) ==
  {i \in RequestIndices : /\ requests[i].req.iteration = k
                          /\ requests[i].req.kind \in {"sell", "buy"}}

----------------------------------------------------------------------------
(* C39: the source of a loop sell                                          *)

SellCalled == ToolCalled /\ LastCall.req.kind = "sell"
SellDue == pc = "exec" /\ queue # <<>> /\ Head(queue).action = "sell"
\* the balances of the symbol in the snapshot of the iteration
SnapshotBalances(symbol) ==
  {i \in 1..Len(currentPortfolio) :
     \/ currentPortfolio[i].symbol = symbol
     \/ (currentPortfolio[i].symbol = "USDbC" /\ symbol = "USDC")}
OnConsolidationChain(symbol) ==
  {i \in SnapshotBalances(symbol) :
     consolidateToChain # NoChain /\ currentPortfolio[i].specificChain = consolidateToChain}
IsSellSource(i, symbol) ==
  /\ i \in SnapshotBalances(symbol)
  /\ IF OnConsolidationChain(symbol) # {}
     THEN i \in OnConsolidationChain(symbol)
     ELSE \A j \in SnapshotBalances(symbol) :
            RLe(currentPortfolio[j].amount, currentPortfolio[i].amount)

\* C39: a sell request of the loop is drawn on one balance of the sold
\* symbol in the snapshot of the iteration, the one on consolidateToChain if
\* there is one and else the largest, for the smaller of the sub-trade
\* amount and the amount of that balance; without a balance of the symbol
\* in the snapshot nothing is requested.
C39_SellFromSnapshotBalance ==
  [][/\ SellCalled =>
          /\ SellDue
          /\ LastCall.req.fromSymbol = Head(queue).symbol
          /\ \E i \in 1..Len(currentPortfolio) :
               /\ IsSellSource(i, Head(queue).symbol)
               /\ LastCall.req.fromSpecificChain = currentPortfolio[i].specificChain
               /\ LastCall.req.held = currentPortfolio[i].amount
               /\ LastCall.req.amount =
                    RMin(Head(queue).differenceAmount, currentPortfolio[i].amount)
     /\ (SellDue /\ SnapshotBalances(Head(queue).symbol) = {}) => requests' = requests]_vars

\* a sell drawn on the balance of the consolidation chain although the
\* snapshot holds a larger balance of the symbol elsewhere
C39_Witness ==
  /\ pc = "exec"
  /\ \E r \in RequestIndices :
       /\ requests[r].req.kind = "sell"
       /\ requests[r].req.iteration = iterationsCompleted
       /\ requests[r].req.fromSpecificChain = consolidateToChain
       /\ \E j \in SnapshotBalances(requests[r].req.fromSymbol) :
            RLt(requests[r].req.held, currentPortfolio[j].amount)

\* a sell for less than the sub-trade asked, the balance being smaller
C39_WitnessClamped ==
  /\ pc = "exec"
  /\ \E r \in RequestIndices :
       /\ requests[r].req.kind = "sell"
       /\ requests[r].req.amount = requests[r].req.held
       /\ \E i \in 1..Len(plan) :
            /\ plan[i].symbol = requests[r].req.fromSymbol
            /\ RLt(requests[r].req.held, RDivInt(plan[i].differenceAmount, 4))

----------------------------------------------------------------------------
(* C40: the runner                                                         *)

RunStarted == runner'.runs = runner.runs + 1
RunSettled == runner'.settled = runner.settled + 1
RunnerActive == pc \in {"runner_running", "runner_waiting"}

\* C40: at most one workflow run is in flight; a run is started by the
\* first call or by a timer, with no run in flight; a run that settles sets
\* exactly one timer, of 15 minutes after it resolved and of 1 minute after
\* it threw; so a running bot always has a run in flight or a timer set.
C40_OneRunAtATime ==
  /\ [](runner.inFlight <= 1)
  /\ [](RunnerActive => runner.inFlight + Len(runner.timers) = 1)
  /\ [][RunStarted =>
          /\ runner.inFlight = 0
          /\ \/ pc = "runner_main"
             \/ /\ runner.timers # <<>>
                /\ runner'.timers = Tail(runner.timers)
                /\ runner.settled = runner.runs]_vars
  /\ [][RunSettled =>
          /\ runner'.timers =
               Append(runner.timers,
                      IF runner'.lastOutcome = "resolved" THEN 900000 ELSE 60000)
          /\ Len(runner'.timers) = 1
          /\ runner'.runs = runner.runs]_vars

\* the bot has started a run from the timer set after a run that threw
C40_Witness ==
  /\ pc = "runner_running"
  /\ runner.lastOutcome = "thrown"
  /\ runner.runs = runner.settled + 1
  /\ runner.runs >= 2

\* the bot waits 15 minutes after a run that resolved
C40_WitnessInterval ==
  /\ pc = "runner_waiting"
  /\ runner.lastOutcome = "resolved"
  /\ runner.timers = <<900000>>

====
